---- MODULE Spec2Model ----
(***************************************************************************)
(* Vexo adaptive autoplay engine: one guild session (GuildMusicState) with *)
(* the look-ahead buffers, the refill cycle, the advance algorithm         *)
(* (play_next), the track start (_play_song / play_async) and the commands *)
(* and buttons that touch the session.                                     *)
(*                                                                         *)
(* Every action is one synchronous segment of a handler or coroutine: the  *)
(* code between two awaits that suspend.  Work scheduled with              *)
(* asyncio.create_task or run_coroutine_threadsafe is a pending entry that *)
(* a later action runs.                                                    *)
(***************************************************************************)
EXTENDS Integers, Sequences, FiniteSets, TLC

(* ----------------------------- bounds --------------------------------- *)
MaxQueue   == 1      \* requests accepted into state.queue by /play
MaxStarts  == 1      \* play_async coroutines in flight
MaxWaiters == 1      \* wait_and_play coroutines scheduled, not yet run
MaxAfter   == 1      \* after-callbacks of the voice client not yet run
MaxCycles  == 2      \* refill calls past the guard counted by `cycles`
MaxUrl     == 8      \* tracks the preference store knows
MaxCount   == 4      \* largest slot count asked of build_user_slots
MaxCalls == 3    \* record_interaction calls in one run
MaxScore == 8    \* largest raw score of a preference row
MaxHalvings == 3 \* oldest interaction, in half-lives

(* --------------------------- program constants ------------------------ *)
VisibleCap == 5
HiddenCap  == 5
BufferCap  == 10
JustPlayTake == 3
JustPlayFetch == 5
DISCOVERY_WEIGHT_UPVOTE == 5
DISCOVERY_WEIGHT_DOWNVOTE == -5
DISCOVERY_WEIGHT_SKIP == -2
DISCOVERY_WEIGHT_REQUEST == 2
FallbackConfigured == TRUE

(* ------------------------------- tracks ------------------------------- *)
\* A track is identified by its canonical (webpage) URL, modelled by an id.
\* Track 2 is longer than the limit /maxduration sets; the others are shorter.
LongTracks == {2}

NoSong == [id |-> 0, kind |-> "none"]

\* Song objects by origin: YTDLSource.search ("search"), the discovery pool
\* ("pool"), YTDLSource.from_playlist ("playlist").
MkSong(t, k) == [id |-> t, kind |-> k]

\* source.duration: the actual duration the resolved source reports
ActualDuration(t) == IF t \in LongTracks THEN 180 ELSE 100

\* Song.duration: 0 for a discovery song, the entry's duration otherwise
SongDuration(s) == IF s.kind = "pool" THEN 0 ELSE ActualDuration(s.id)

\* Song.url: the stream URL for a searched song (data['url'], which from_url
\* hands to FFmpeg), the page URL for pool and playlist songs.
SongUrl(s) == IF s.kind = "search" THEN <<"stream", s.id>> ELSE <<"page", s.id>>

\* Song.webpage_url: the canonical URL
SongWebpageUrl(s) == <<"page", s.id>>

VARIABLES
  queue,                \* state.queue
  current,              \* state.current (NoSong for None)
  loop_mode,            \* state.loop_mode
  is_24_7,              \* state.is_24_7
  is_autoplay,          \* state.is_autoplay
  max_duration,         \* state.max_duration
  autoplay_visible,     \* state.autoplay_visible
  autoplay_hidden,      \* state.autoplay_hidden
  is_fetching_autoplay, \* state.is_fetching_autoplay
  voice_client,         \* state.voice_client is set
  connected,            \* the voice client is connected
  playing,              \* the song the voice client plays (NoSong: none)
  afterPending,         \* after-callbacks fired by the player, not yet run
  refill,               \* the refill cycle in flight: pc, owner, count
  starts,               \* play_async coroutines in flight
  waiters,              \* wait_and_play coroutines scheduled
  justPlay,             \* position of the /just_play handler
  discPending,          \* disconnect scheduled by play_next
  cycles,               \* refill calls past the guard and not yet finished
  tornDown,             \* torn down (/disconnect, empty channel), not rejoined
  ev,                   \* what the last step did (observation only)
  stopped,              \* a stop was the last command (observation only)
  history,              \* URLs of the add_to_history calls play_next submitted
  prefetch,             \* state.prefetched_song and the _prefetch_next coroutine
  alloc,                \* the discovery engine: one call of it, or the store it writes
  bot                   \* the cog: guild_states, stored settings, the 10 s task

vars == <<queue, current, loop_mode, is_24_7, is_autoplay, max_duration,
          autoplay_visible, autoplay_hidden, is_fetching_autoplay,
          voice_client, connected, playing, afterPending, refill, starts,
          waiters, justPlay, discPending, cycles, tornDown, ev, stopped,
          history, prefetch, alloc, bot>>

\* the session's variables (all but the discovery call)
session == <<queue, current, loop_mode, is_24_7, is_autoplay, max_duration,
             autoplay_visible, autoplay_hidden, is_fetching_autoplay,
             voice_client, connected, playing, afterPending, refill, starts,
             waiters, justPlay, discPending, cycles, tornDown, ev, stopped,
             history, prefetch>>

NoRefill == [pc |-> "idle", owner |-> "none", count |-> 0]

\* prefetched_song is None and no _prefetch_next coroutine exists
NoPrefetch == [song |-> NoSong, pc |-> "idle"]

\* ev: op is what the step did, by what caused it
MkEv(o, b) == [op |-> o, by |-> b]
NoEv == MkEv("none", "none")

\* no discovery call is modelled step by step: its answer is an input of
\* RefillDiscoveryDone
NoAlloc == [pc |-> "off"]

\* the cog's dictionary of sessions is not modelled: the session above is the
\* only one
NoBot == [pc |-> "single"]

GuildMusicState ==
  /\ queue = <<>>
  /\ current = NoSong
  /\ loop_mode = "off"
  /\ is_24_7 = FALSE
  /\ is_autoplay = TRUE
  /\ max_duration = 0
  /\ autoplay_visible = <<>>
  /\ autoplay_hidden = <<>>
  /\ is_fetching_autoplay = FALSE
  /\ voice_client = FALSE
  /\ connected = FALSE
  /\ playing = NoSong
  /\ afterPending = 0
  /\ refill = NoRefill
  /\ starts = <<>>
  /\ waiters = 0
  /\ justPlay = "idle"
  /\ discPending = FALSE
  /\ cycles = 0
  /\ tornDown = FALSE
  /\ ev = NoEv
  /\ stopped = FALSE
  /\ prefetch = NoPrefetch

\* the playback_history table is followed only by the specifications that
\* start from InitHistory: nothing the session does reads it
Untracked == {<<"untracked", 0>>}

Init ==
  GuildMusicState /\ history = Untracked /\ alloc = NoAlloc /\ bot = NoBot

InitHistory ==
  GuildMusicState /\ history = {} /\ alloc = NoAlloc /\ bot = NoBot

(* ------------------------------ helpers ------------------------------- *)
\* the session as one value: the code segments below are functions on it
S == [queue |-> queue, current |-> current, loop_mode |-> loop_mode,
      is_24_7 |-> is_24_7, is_autoplay |-> is_autoplay,
      max_duration |-> max_duration, autoplay_visible |-> autoplay_visible,
      autoplay_hidden |-> autoplay_hidden,
      is_fetching_autoplay |-> is_fetching_autoplay,
      voice_client |-> voice_client, connected |-> connected,
      playing |-> playing, afterPending |-> afterPending, refill |-> refill,
      starts |-> starts, waiters |-> waiters, justPlay |-> justPlay,
      discPending |-> discPending, cycles |-> cycles, tornDown |-> tornDown,
      ev |-> ev, history |-> history]

\* what the steps of /play, /just_play and the play button report
RequestOps ==
  {"play", "enqueue", "button-autoplay", "just-play-autoplay",
   "just-play-fetch", "just-play-nothing"}

Set(r) ==
  /\ queue' = r.queue
  /\ current' = r.current
  /\ loop_mode' = r.loop_mode
  /\ is_24_7' = r.is_24_7
  /\ is_autoplay' = r.is_autoplay
  /\ max_duration' = r.max_duration
  /\ autoplay_visible' = r.autoplay_visible
  /\ autoplay_hidden' = r.autoplay_hidden
  /\ is_fetching_autoplay' = r.is_fetching_autoplay
  /\ voice_client' = r.voice_client
  /\ connected' = r.connected
  /\ playing' = r.playing
  /\ afterPending' = r.afterPending
  /\ refill' = r.refill
  /\ starts' = r.starts
  /\ waiters' = r.waiters
  /\ justPlay' = r.justPlay
  /\ discPending' = r.discPending
  /\ cycles' = r.cycles
  /\ tornDown' = r.tornDown
  /\ ev' = r.ev
  /\ stopped' = IF r.ev.op = "stop" THEN TRUE
                ELSE IF r.ev.op \in RequestOps THEN FALSE ELSE stopped
  /\ history' = r.history
  /\ prefetch' = prefetch
  /\ alloc' = alloc
  /\ bot' = bot

\* GuildMusicState.total_autoplay
total_autoplay(s) == s.autoplay_visible \o s.autoplay_hidden

SeqRange(s) == {s[i] : i \in 1..Len(s)}

Min(a, b) == IF a < b THEN a ELSE b

Take(s, n) == SubSeq(s, 1, Min(n, Len(s)))

RemoveAt(s, i) == SubSeq(s, 1, i - 1) \o SubSeq(s, i + 1, Len(s))

\* the duration test of play_next, wait_and_play and just_play
OverLimit(s, maxd) == maxd > 0 /\ SongDuration(s) > 0 /\ SongDuration(s) > maxd

\* the while loop that pops candidates: what is left of the visible buffer
\* when the loop stops, the accepted candidate at its head (or empty)
RECURSIVE DropFiltered(_, _)
DropFiltered(vis, maxd) ==
  IF vis = <<>> THEN <<>>
  ELSE IF OverLimit(Head(vis), maxd) THEN DropFiltered(Tail(vis), maxd)
  ELSE vis

(* --------------------------- track start ------------------------------ *)
\* _play_song: state.current = song, play_async is submitted to the loop
PlaySong(s, song) ==
  [s EXCEPT !.current = song,
            !.starts = Append(@, [song |-> song, pc |-> "resolve"])]

\* VoiceClient.disconnect(): the player is stopped, which fires its
\* after-callback, and the connection is closed
VoiceDisconnect(s) ==
  [s EXCEPT !.connected = FALSE,
            !.playing = NoSong,
            !.afterPending = IF s.playing # NoSong THEN @ + 1 ELSE @]

\* VoiceClient.stop(): the player ends and its after-callback fires
VoiceStop(s) ==
  IF s.playing # NoSong
  THEN [s EXCEPT !.playing = NoSong, !.afterPending = @ + 1]
  ELSE s

(* ----------------------------- advance -------------------------------- *)
\* a play_next that replays on loop_mode == "queue" instead of "song"
LoopReplaysOnQueueMode(mode, cur) == mode = "queue" /\ cur # NoSong

\* play_next step 2: loop_mode == "song" and state.current
LoopReplays(mode, cur) == mode = "song" /\ cur # NoSong

\* play_next: rotate hidden to visible
Rotate(s) ==
  IF s.autoplay_hidden # <<>>
  THEN [s EXCEPT !.autoplay_visible = Append(@, Head(s.autoplay_hidden)),
                 !.autoplay_hidden = Tail(@)]
  ELSE s

\* a disconnect test that ignores is_24_7
ShouldDisconnectAlways(s) == s.voice_client

\* the disconnect test of play_next and wait_and_play
ShouldDisconnect(s) == ~s.is_24_7 /\ s.voice_client

\* play_next step 1: db.add_to_history(..., state.current.url) is submitted
RecordHistory(s) ==
  IF s.current # NoSong /\ s.history # Untracked
  THEN [s EXCEPT !.history = @ \cup {SongUrl(s.current)}]
  ELSE s

\* a queue loop that puts the finished track at the front of the queue
LoopQueueRequeueFront(s) ==
  IF s.loop_mode = "queue" /\ s.current # NoSong
  THEN [s EXCEPT !.queue = <<s.current>> \o @]
  ELSE s

\* play_next step 2: loop_mode == "queue" and state.current
LoopQueueRequeue(s) ==
  IF s.loop_mode = "queue" /\ s.current # NoSong
  THEN [s EXCEPT !.queue = Append(@, s.current)]
  ELSE s

\* play_next from step 2 on, called by cause `by`
Advance(s, by) ==
  IF LoopReplays(s.loop_mode, s.current)
  THEN [PlaySong(s, s.current) EXCEPT !.ev = MkEv("loop", by)]
  ELSE
    LET s1 == LoopQueueRequeue(s) IN
    IF s1.queue # <<>>
    THEN LET next == Head(s1.queue) IN
         [PlaySong([s1 EXCEPT !.queue = Tail(@)], next)
            EXCEPT !.ev = MkEv("queue", by)]
    ELSE IF s1.is_autoplay
    THEN LET rest == DropFiltered(s1.autoplay_visible, s1.max_duration) IN
         IF rest # <<>>
         THEN [PlaySong(Rotate([s1 EXCEPT !.autoplay_visible = Tail(rest)]),
                        Head(rest))
                 EXCEPT !.ev = MkEv("autoplay", by)]
         ELSE [s1 EXCEPT !.autoplay_visible = <<>>,
                         !.waiters = @ + 1,
                         !.ev = MkEv("emergency", by)]
    ELSE [s1 EXCEPT !.current = NoSong,
                    !.discPending = @ \/ ShouldDisconnect(s1),
                    !.ev = MkEv("idle", by)]

\* play_next(guild_id), called by cause `by`
PlayNext(s, by) == Advance(RecordHistory(s), by)

\* the selection of wait_and_play after its refill call returned
WaitSelect(s, by) ==
  LET rest == DropFiltered(s.autoplay_visible, s.max_duration) IN
  IF rest # <<>>
  THEN [PlaySong([s EXCEPT !.autoplay_visible = Tail(rest)], Head(rest))
          EXCEPT !.ev = MkEv("retry-autoplay", by)]
  ELSE LET s1 == [s EXCEPT !.autoplay_visible = <<>>] IN
       IF ShouldDisconnect(s1)
       THEN [VoiceDisconnect(s1)
               EXCEPT !.ev = MkEv("retry-disconnect", by)]
       ELSE [s1 EXCEPT !.ev = MkEv("retry-idle", by)]

(* ------------------------------ refill -------------------------------- *)
\* a guard that does not read is_fetching_autoplay
RefillSkipsIgnoringFlag(s) == ~s.voice_client

\* a refill without the guard
RefillSkipsNever(s) == FALSE

\* _refill_autoplay_buffer: the guard that makes the call return at once
RefillSkips(s) == s.is_fetching_autoplay \/ ~s.voice_client

\* total_needed = 10 - len(state.total_autoplay)
TotalNeeded(s) == BufferCap - Len(total_autoplay(s))

\* still_needed = (5 - len(visible)) + (5 - len(hidden))
StillNeeded(s) ==
  (VisibleCap - Len(s.autoplay_visible)) + (HiddenCap - Len(s.autoplay_hidden))

\* the longest answer discovery or the playlist fetch gives in this model
FullAnswer == <<1, 2, 3, 4, 5, 6>>
MaxAnswer == Len(FullAnswer)

\* the refill call up to its first await: the flag is set and the cycle
\* waits for discovery_engine.get_next_songs
\* (count is kept up to the longest answer the environment gives: a larger
\* count truncates nothing)
BeginRefill(s, owner) ==
  [s EXCEPT !.is_fetching_autoplay = TRUE,
            !.cycles = @ + 1,
            !.refill = [pc |-> "discovery", owner |-> owner,
                        count |-> Min(TotalNeeded(s), MaxAnswer)]]

\* asyncio.create_task(self._refill_autoplay_buffer(...)): the task runs its
\* first segment when the handler that created it yields
SpawnRefill(s) ==
  IF RefillSkips(s) \/ TotalNeeded(s) <= 0 THEN s ELSE BeginRefill(s, "task")

\* step 2 duplicate test: any(s.url == song.url for s in queue + total)
DiscoveryDup(s, song) ==
  \E x \in SeqRange(s.queue \o total_autoplay(s)) : SongUrl(x) = SongUrl(song)

\* step 2 loop over the recommendations
RECURSIVE FillDiscovery(_, _)
FillDiscovery(s, recs) ==
  IF recs = <<>> THEN s
  ELSE LET song == MkSong(Head(recs), "pool") IN
       IF DiscoveryDup(s, song) THEN FillDiscovery(s, Tail(recs))
       ELSE IF Len(s.autoplay_visible) < VisibleCap
       THEN FillDiscovery([s EXCEPT !.autoplay_visible = Append(@, song)],
                          Tail(recs))
       ELSE FillDiscovery([s EXCEPT !.autoplay_hidden = Append(@, song)],
                          Tail(recs))

\* step 3 duplicate test: url or webpage_url equal
FallbackDup(s, ps) ==
  \E x \in SeqRange(s.queue \o total_autoplay(s)) :
     SongUrl(x) = SongUrl(ps) \/ SongWebpageUrl(x) = SongWebpageUrl(ps)

\* step 3 loop over the playlist songs
RECURSIVE FillFallback(_, _)
FillFallback(s, pl) ==
  IF pl = <<>> THEN s
  ELSE LET ps == MkSong(Head(pl), "playlist") IN
       IF FallbackDup(s, ps) THEN FillFallback(s, Tail(pl))
       ELSE IF Len(s.autoplay_visible) < VisibleCap
       THEN FillFallback([s EXCEPT !.autoplay_visible = Append(@, ps)],
                         Tail(pl))
       ELSE IF Len(s.autoplay_hidden) < HiddenCap
       THEN FillFallback([s EXCEPT !.autoplay_hidden = Append(@, ps)],
                         Tail(pl))
       ELSE s

(* ----------------------------- prefetch ------------------------------- *)
\* _prefetch_next: the next candidate (NoSong when there is none).  No
\* handler, task or callback of the repository calls _prefetch_next, so no
\* action of the model writes prefetch.
PrefetchCandidate(s) ==
  IF s.queue # <<>> THEN Head(s.queue)
  ELSE IF s.is_autoplay /\ s.autoplay_visible # <<>>
  THEN Head(s.autoplay_visible)
  ELSE NoSong

(* ----------------------------- just_play ------------------------------ *)
\* just_play: the selection loop and the start
JustPlaySelect(s) ==
  LET rest == DropFiltered(s.autoplay_visible, s.max_duration) IN
  IF rest # <<>>
  THEN [PlaySong([s EXCEPT !.autoplay_visible = Tail(rest)], Head(rest))
          EXCEPT !.justPlay = "idle",
                 !.ev = MkEv("just-play-autoplay", "none")]
  ELSE [s EXCEPT !.autoplay_visible = <<>>,
                 !.justPlay = "idle",
                 !.ev = MkEv("just-play-nothing", "none")]

\* just_play after its refill call returned
JustPlayAfterRefill(s) ==
  IF s.autoplay_visible = <<>> /\ FallbackConfigured
  THEN [s EXCEPT !.justPlay = "fallback",
                 !.ev = MkEv("just-play-fetch", "none")]
  ELSE JustPlaySelect(s)

\* the max_duration filter of just_play on the playlist songs
RECURSIVE JustPlayFilter(_, _)
JustPlayFilter(pl, maxd) ==
  IF pl = <<>> THEN <<>>
  ELSE LET ps == MkSong(Head(pl), "playlist") IN
       IF maxd > 0 /\ ~(SongDuration(ps) = 0 \/ SongDuration(ps) <= maxd)
       THEN JustPlayFilter(Tail(pl), maxd)
       ELSE <<ps>> \o JustPlayFilter(Tail(pl), maxd)

\* a refill whose finally clause leaves is_fetching_autoplay set
CompleteRefillKeepsFlag(s) ==
  LET s1 == [s EXCEPT !.refill = NoRefill, !.cycles = @ - 1] IN
  CASE s.refill.owner = "advance"   -> WaitSelect(s1, "refill-ran")
    [] s.refill.owner = "just_play" -> JustPlayAfterRefill(s1)
    [] OTHER -> [s1 EXCEPT !.ev = MkEv("refill-complete", "none")]

\* the end of a refill cycle: the finally clause, then the caller goes on
CompleteRefill(s) ==
  LET s1 == [s EXCEPT !.is_fetching_autoplay = FALSE, !.refill = NoRefill,
                      !.cycles = @ - 1] IN
  CASE s.refill.owner = "advance"   -> WaitSelect(s1, "refill-ran")
    [] s.refill.owner = "just_play" -> JustPlayAfterRefill(s1)
    [] OTHER -> [s1 EXCEPT !.ev = MkEv("refill-complete", "none")]

(* --------------------------- environment ------------------------------ *)
\* values /maxduration sets (seconds)
DurationChoices == {0, 120}

LoopModes == {"off", "song", "queue"}

\* the model's bounds on pending work
Bounded(r) ==
  /\ Len(r.starts) <= MaxStarts
  /\ r.waiters <= MaxWaiters
  /\ r.afterPending <= MaxAfter
  /\ r.cycles <= MaxCycles

Do(r) == Bounded(r) /\ Set(r)

\* a step the properties do not observe (o names it for the reader)
Note(s, o) == [s EXCEPT !.ev = NoEv]

\* ensure_voice / _check_voice: the bot joins and state.voice_client is set
Joined(s) ==
  [s EXCEPT !.voice_client = TRUE, !.connected = TRUE, !.tornDown = FALSE]

ClearBuffers(s) == [s EXCEPT !.autoplay_visible = <<>>, !.autoplay_hidden = <<>>]

(* ------------------------------ actions ------------------------------- *)
\* /play <song>, from the return of YTDLSource.search on
Played(s, t) ==
  LET song == MkSong(t, "search")
      s1 == Joined(s)
  IN IF s.playing # NoSong
     THEN [s1 EXCEPT !.queue = Append(@, song),
                     !.ev = MkEv("enqueue", "none")]
     ELSE LET s2 == PlaySong(s1, song)
              s3 == IF total_autoplay(s2) = <<>> THEN SpawnRefill(s2) ELSE s2
          IN [s3 EXCEPT !.ev = MkEv("play", "none")]

Play(t) ==
  /\ playing # NoSong => Len(queue) < MaxQueue
  /\ Do(Played(S, t))

\* the 10 s loop autoplay_refill_task
Timer ==
  /\ is_autoplay /\ ~is_fetching_autoplay
  /\ Len(total_autoplay(S)) < BufferCap
  /\ ~RefillSkips(S)
  /\ Do(Note(BeginRefill(S, "task"), "timer"))

\* get_next_songs returned
AfterDiscovery(s, recs) ==
  LET s1 == FillDiscovery(s, Take(recs, s.refill.count)) IN
  IF StillNeeded(s1) > 0 /\ FallbackConfigured
  THEN Note([s1 EXCEPT !.refill.pc = "fallback",
                       !.refill.count = Min(StillNeeded(s1) + 5, MaxAnswer)],
            "refill-fallback")
  ELSE CompleteRefill(s1)

RefillDiscoveryDone(recs) ==
  /\ refill.pc = "discovery"
  /\ Do(AfterDiscovery(S, recs))

\* get_next_songs raised: the outer except, then finally
RefillDiscoveryFails ==
  /\ refill.pc = "discovery"
  /\ Do(CompleteRefill(S))

\* from_playlist returned (an empty list when it failed)
RefillFallbackDone(pl) ==
  /\ refill.pc = "fallback"
  /\ Do(CompleteRefill(FillFallback(S, Take(pl, refill.count))))

\* the voice client's player ends: the track is over or vc.stop() of /skip
TrackFinished ==
  /\ playing # NoSong
  /\ Do(Note(VoiceStop(S), "finished"))

\* after=lambda e: self.play_next(guild_id, e)
AfterCallback ==
  /\ afterPending > 0
  /\ Do(PlayNext([S EXCEPT !.afterPending = @ - 1], "after"))

\* wait_and_play starts: its refill call
WaitAndPlayRuns ==
  /\ waiters > 0
  /\ LET s0 == [S EXCEPT !.waiters = @ - 1] IN
     IF RefillSkips(s0) THEN Do(WaitSelect(s0, "refill-skipped"))
     ELSE IF TotalNeeded(s0) <= 0 THEN Do(WaitSelect(s0, "refill-not-needed"))
     ELSE Do(Note(BeginRefill(s0, "advance"), "emergency-refill"))

\* a play_async without the duration filter
DurationRejectedNever(actual, maxd) == FALSE

\* play_async step 3: the duration filter on the actual duration
DurationRejected(actual, maxd) == maxd > 0 /\ actual > 0 /\ actual > maxd

\* play_async after the hand-over to the voice client: the mood refresh test
AfterStart(s, i) ==
  IF s.autoplay_hidden # <<>>
  THEN [s EXCEPT !.starts[i].pc = "mood"]
  ELSE [s EXCEPT !.starts = RemoveAt(@, i)]

\* play_async: YTDLSource.from_url returned.  Writing the metadata to
\* state.current raises when state.current is None, and vc.play raises when
\* the voice client is already playing: the except clause calls play_next.
Resolved(s, i) ==
  LET song == s.starts[i].song
      base == [s EXCEPT !.starts = RemoveAt(@, i)]
  IN IF DurationRejected(ActualDuration(song.id), s.max_duration)
     THEN PlayNext(base, "over-limit")
     ELSE IF s.current = NoSong
     THEN PlayNext(base, "play-error")
     ELSE IF s.voice_client /\ s.connected
     THEN IF s.playing # NoSong
          THEN PlayNext(base, "play-error")
          ELSE [s EXCEPT !.playing = song,
                         !.starts[i].pc = "display",
                         !.ev = MkEv("started", "none")]
     ELSE [AfterStart(s, i) EXCEPT !.ev = MkEv("not-connected", "none")]

ResolveDone(i) ==
  /\ i \in 1..Len(starts)
  /\ starts[i].pc = "resolve"
  /\ Do(Resolved(S, i))

\* play_async: YTDLSource.from_url raised
ResolveFails(i) ==
  /\ i \in 1..Len(starts)
  /\ starts[i].pc = "resolve"
  /\ Do(PlayNext([S EXCEPT !.starts = RemoveAt(@, i)], "resolve-failed"))

\* play_async: _update_now_playing_message returned
DisplayDone(i) ==
  /\ i \in 1..Len(starts)
  /\ starts[i].pc = "display"
  /\ Do(Note(AfterStart(S, i), "display"))

\* play_async: get_mood_recommendation returned m
MoodDone(i, m, idx) ==
  /\ i \in 1..Len(starts)
  /\ starts[i].pc = "mood"
  /\ LET base == [S EXCEPT !.starts = RemoveAt(@, i)] IN
     IF m = 0 THEN idx = 1 /\ Do(Note(base, "mood-none"))
     ELSE IF autoplay_hidden = <<>>
     THEN idx = 1 /\ Do(PlayNext(base, "mood-error"))
     ELSE /\ idx \in 1..Len(autoplay_hidden)
          /\ Do(Note([base EXCEPT !.autoplay_hidden[idx] = MkSong(m, "pool")],
                     "mood-swap"))

\* /just_play up to its refill call
JustPlay ==
  /\ justPlay = "idle"
  /\ LET s1 == [Joined(S) EXCEPT !.is_autoplay = TRUE] IN
     IF playing # NoSong THEN Do(Note(s1, "just-play-already"))
     ELSE IF RefillSkips(s1) \/ TotalNeeded(s1) <= 0
     THEN Do(JustPlayAfterRefill(s1))
     ELSE Do(Note([BeginRefill(s1, "just_play") EXCEPT !.justPlay = "refill"],
                  "just-play-refill"))

\* /just_play: from_playlist returned
JustPlayFallbackDone(pl) ==
  /\ justPlay = "fallback"
  /\ LET ext == Take(JustPlayFilter(Take(pl, JustPlayFetch), max_duration), JustPlayTake) IN
     Do(JustPlaySelect([S EXCEPT !.autoplay_visible = @ \o ext]))

\* the play button of the now-playing message with nothing playing
PlayButton ==
  /\ playing = NoSong
  /\ autoplay_visible # <<>>
  /\ LET s1 == [Joined(S) EXCEPT !.autoplay_visible = Tail(@)]
         song == Head(autoplay_visible)
     IN Do([PlaySong(s1, song)
              EXCEPT !.ev = MkEv("button-autoplay", "none")])

\* the clearing that /stop and the stop buttons share
Stopped(s) ==
  VoiceStop([ClearBuffers(s) EXCEPT !.queue = <<>>, !.current = NoSong,
                                    !.loop_mode = "off"])

\* /stop
StopCmd ==
  /\ connected
  /\ LET s1 == Stopped(S) IN
     Do([IF ~s1.is_24_7 THEN VoiceDisconnect(s1) ELSE s1
           EXCEPT !.ev = MkEv("stop", "none")])

\* the stop buttons
StopButton ==
  /\ connected
  /\ Do([Stopped(S) EXCEPT !.ev = MkEv("stop", "none")])

\* a jump button of the autoplay preview (index i - 1)
JumpTo(i) ==
  /\ connected
  /\ i \in 1..Len(autoplay_visible)
  /\ Do(Note(VoiceStop([S EXCEPT
               !.autoplay_visible = SubSeq(@, i, Len(@)),
               !.queue = <<>>]), "jump"))

\* /autoplay and the autoplay button
AutoplayToggled(s) ==
  LET s1 == [s EXCEPT !.is_autoplay = ~@] IN
  Note(IF s1.is_autoplay THEN SpawnRefill(s1) ELSE ClearBuffers(s1),
       "autoplay-toggle")

AutoplayToggle == Do(AutoplayToggled(S))

\* /maxduration
MaxDurationCmd(m) ==
  LET s1 == [S EXCEPT !.max_duration = m] IN
  Do(Note(IF s1.is_autoplay THEN SpawnRefill(ClearBuffers(s1)) ELSE s1,
          "maxduration"))

\* /loop and the loop buttons
LoopCmd(mode) ==
  /\ mode # loop_mode
  /\ Do(Note([S EXCEPT !.loop_mode = mode], "loop"))

\* /247
Toggle247 ==
  Do(Note([Joined(S) EXCEPT !.is_24_7 = ~@], "247"))

\* /disconnect
DisconnectCmd ==
  /\ connected
  /\ Do(Note(VoiceDisconnect([ClearBuffers(S) EXCEPT
               !.queue = <<>>, !.current = NoSong, !.is_autoplay = FALSE,
               !.tornDown = TRUE]),
             "disconnect"))

\* the disconnect play_next submitted to the loop
DisconnectRuns ==
  /\ discPending
  /\ Do(Note(VoiceDisconnect([S EXCEPT !.discPending = FALSE]),
             "disconnected"))

\* on_voice_state_update: a listener joined the bot's channel
ListenerJoin ==
  /\ connected
  /\ is_autoplay
  /\ Do(Note(SpawnRefill(S), "join"))

\* on_voice_state_update: the last listener left the bot's channel
ChannelEmpties ==
  /\ connected
  /\ ~is_24_7
  /\ Do(Note(VoiceDisconnect([ClearBuffers(S) EXCEPT
               !.queue = <<>>, !.current = NoSong, !.tornDown = TRUE]),
             "auto-disconnect"))

\* the listeners of the voice channel other than the last one to leave
Members == {"A", "B"}

\* user_id of the slot get_next_songs returned for pool track t: the
\* listener it was built for
SlotUserId(t) == IF t % 2 = 1 THEN "A" ELSE "B"

\* hasattr(s, 'user_id'): the Song dataclass has no such field, and the
\* refill drops the slot's user_id when it builds the Song
HasUserId(song) == FALSE

\* the filter of on_voice_state_update on both buffers
KeptOnLeave(song, member) ==
  ~HasUserId(song) \/ SlotUserId(song.id) # member

\* on_voice_state_update: a listener left the bot's channel, others stay
ListenerLeave(member) ==
  /\ connected
  /\ Do([S EXCEPT
           !.autoplay_visible = SelectSeq(@, LAMBDA x : KeptOnLeave(x, member)),
           !.autoplay_hidden = SelectSeq(@, LAMBDA x : KeptOnLeave(x, member)),
           !.ev = MkEv("listener-left", member)])

(* ----------------------------- discovery ------------------------------ *)
\* DiscoveryEngine (utils/discovery.py).  A track of the preference store is
\* identified by its URL, 1..MaxUrl.  What the store returns (preference
\* rows, the pool, the play history) is an input of the call; the store holds
\* no genre, collaborative or last-played data, so the genre, collaborative
\* and momentum signals of _score_pool add nothing.
Urls == 1..MaxUrl

Users == {1, 2, 3}

\* the artist column of a row: three tracks per artist
ArtistOf(u) == (u - 1) \div 3

\* the title column of a row, as its words
TitleOf(u) == IF u % 4 = 3 THEN {"night", "love", "sky"} ELSE {"love"}

\* the words of _KEYWORD_STOPWORDS that occur in the titles
Stopwords == {"love"}

\* _extract_keywords: words longer than 3 characters that are no stop-words
ExtractKeywords(title) == {w \in title : Len(w) > 3 /\ w \notin Stopwords}

\* a row of user_preferences: url, score, and the temporal weight of its
\* last interaction in hundredths
Pref(u, sc, w) == [url |-> u, score |-> sc, decay |-> w]

\* p['effective_score'] = raw_score * decay (in hundredths)
EffectiveScore(p) == p.score * p.decay

\* liked_songs = [p for p in prefs if p.get('score', 0) > 0]
Liked(prefs) == SelectSeq(prefs, LAMBDA p : p.score > 0)

RECURSIVE InsertDesc(_, _)
InsertDesc(sorted, p) ==
  IF sorted = <<>> THEN <<p>>
  ELSE IF EffectiveScore(Head(sorted)) >= EffectiveScore(p)
       THEN <<Head(sorted)>> \o InsertDesc(Tail(sorted), p)
       ELSE <<p>> \o sorted

\* liked_songs.sort(key=effective_score, reverse=True): a stable sort
RECURSIVE SortLiked(_)
SortLiked(rows) ==
  IF rows = <<>> THEN <<>>
  ELSE InsertDesc(SortLiked(SubSeq(rows, 1, Len(rows) - 1)), rows[Len(rows)])

Max(a, b) == IF a > b THEN a ELSE b

\* Python's round() of n/d: half to even
PyRound(n, d) ==
  LET q == n \div d
      r == n % d
  IN IF 2 * r < d THEN q
     ELSE IF 2 * r > d THEN q + 1
     ELSE IF q % 2 = 0 THEN q ELSE q + 1

\* tier ratios in percent: DISCOVERY_RATIO_COMFORT / _ADJACENT / _WILDCARD
Ratios(c, a, w) == [comfort |-> c, adjacent |-> a, wildcard |-> w]

DefaultRatios == Ratios(50, 35, 15)

ComfortCount(count, cfg) == Max(1, PyRound(count * cfg.comfort, 100))

AdjacentCount(count, cfg) == Max(1, PyRound(count * cfg.adjacent, 100))

WildcardCount(count, cfg) ==
  Max(0, count - ComfortCount(count, cfg) - AdjacentCount(count, cfg))

TierCounts(count, cfg) ==
  [comfort |-> ComfortCount(count, cfg),
   adjacent |-> AdjacentCount(count, cfg),
   wildcard |-> WildcardCount(count, cfg)]

\* the first k elements of a random order of the set c: every sequence of k
\* distinct elements
RECURSIVE Arrangements(_, _)
Arrangements(c, k) ==
  IF k = 0 \/ c = {} THEN {<<>>}
  ELSE UNION {{<<x>> \o rest : rest \in Arrangements(c \ {x}, k - 1)} : x \in c}

MkSlot(u, user, tier) == [url |-> u, user_id |-> user, slot_type |-> tier]

SlotUrls(slots) == {slots[i].url : i \in 1..Len(slots)}

\* is_recently_played(guild_id, url, minutes=dedup_minutes)
IsRecentlyPlayed(st, u) == u \in st.played

\* _pick_comfort: the eligible liked rows, then weighted sampling without
\* replacement; every weight is at least 0.1, so every order of every
\* selection can come out
PickComfortEligible(liked, used, st) ==
  {liked[i].url : i \in {j \in 1..Len(liked) :
       liked[j].url \notin used /\ ~IsRecentlyPlayed(st, liked[j].url)}}

PickComfort(liked, user, count, used, st) ==
  LET eligible == PickComfortEligible(liked, used, st)
  IN {[i \in 1..Len(a) |-> MkSlot(a[i], user, "comfort")] :
        a \in Arrangements(eligible, Min(count, Cardinality(eligible)))}

\* artist_to_liked: the first liked row (highest effective score) per artist
ArtistToLiked(liked, artist) ==
  LET idx == {i \in 1..Len(liked) : ArtistOf(liked[i].url) = artist}
  IN liked[CHOOSE i \in idx : \A j \in idx : i <= j]

LikedArtists(liked) == {ArtistOf(liked[i].url) : i \in 1..Len(liked)}

\* keys of keyword_to_liked
LikedKeywords(liked) ==
  UNION {ExtractKeywords(TitleOf(liked[i].url)) : i \in 1..Len(liked)}

\* the score _score_pool gives a pool track: artist match 5 (7 for an artist
\* whose liked row has an effective score over 10), 2 per matching keyword
PoolScore(u, liked) ==
  (IF ArtistOf(u) \in LikedArtists(liked)
   THEN IF EffectiveScore(ArtistToLiked(liked, ArtistOf(u))) > 1000 THEN 7 ELSE 5
   ELSE 0)
  + 2 * Cardinality(LikedKeywords(liked) \cap ExtractKeywords(TitleOf(u)))

ScorePoolKeepsPlayed(pool, used, st, liked) ==
  LET keep == SelectSeq(pool, LAMBDA u : u \notin used)
  IN [i \in 1..Len(keep) |-> [url |-> keep[i], score |-> PoolScore(keep[i], liked)]]

\* _score_pool: every pool track that is neither used nor recently played
ScorePool(pool, used, st, liked) ==
  LET keep == SelectSeq(pool, LAMBDA u : u \notin used /\ ~IsRecentlyPlayed(st, u))
  IN [i \in 1..Len(keep) |-> [url |-> keep[i], score |-> PoolScore(keep[i], liked)]]

\* adjacent_candidates.sort(key=score + random()*2, reverse=True): an order
\* can come out iff no item follows one that it beats by 2 or more
AdjacentOrders(cands) ==
  {o \in Arrangements(cands, Cardinality(cands)) :
     \A i, j \in 1..Len(o) : i < j => o[j].score - o[i].score < 2}

\* the loops that walk a candidate list and take up to n unused items
RECURSIVE TakeUnused(_, _, _)
TakeUnused(items, n, used) ==
  IF items = <<>> \/ n <= 0 THEN <<>>
  ELSE IF Head(items).url \in used THEN TakeUnused(Tail(items), n, used)
  ELSE <<Head(items)>> \o TakeUnused(Tail(items), n - 1, used \cup {Head(items).url})

AsSlots(items, user, tier) ==
  [i \in 1..Len(items) |-> MkSlot(items[i].url, user, tier)]

\* steps 5 to 9 of build_user_slots after the comfort picks: the adjacent
\* tier, the wildcard tier and the backfill
AfterComfort(comfort, user, count, cfg, disallow, st, liked) ==
  LET used1 == disallow \cup SlotUrls(comfort)
      scored == ScorePool(st.pool, used1, st, liked)
      adjC == {scored[i] : i \in {j \in 1..Len(scored) : scored[j].score > 0}}
  IN UNION {
       LET adjacent == TakeUnused(order, AdjacentCount(count, cfg), used1)
           used2 == used1 \cup SlotUrls(adjacent)
           wildC == {scored[i] : i \in {j \in 1..Len(scored) :
                       scored[j].score = 0 /\ scored[j].url \notin used2}}
           wc == WildcardCount(count, cfg)
       IN {LET wildcard == TakeUnused(shuffled, wc, used2)
               used3 == used2 \cup SlotUrls(wildcard)
               slots == comfort \o AsSlots(adjacent, user, "adjacent")
                                \o AsSlots(wildcard, user, "wildcard")
               remaining == count - Len(slots)
               backfill == IF remaining > 0
                           THEN TakeUnused(order, remaining, used3) ELSE <<>>
           IN slots \o AsSlots(backfill, user, "adjacent")
           : shuffled \in Arrangements(wildC, Min(wc, Cardinality(wildC)))}
       : order \in AdjacentOrders(adjC)}

HasNoLikedNever(liked) == FALSE

\* if not liked_songs: return []
HasNoLiked(liked) == liked = <<>>

\* build_user_slots: every list of slots the call can return
BuildUserSlots(user, count, cfg, disallow, st) ==
  LET liked == SortLiked(Liked(st.prefs[user]))
  IN IF HasNoLiked(liked) THEN {<<>>}
     ELSE UNION {AfterComfort(c, user, count, cfg, disallow, st, liked) :
                   c \in PickComfort(liked, user, ComfortCount(count, cfg),
                                     disallow, st)}

\* has_preferences: the user has a row in user_preferences
HasPreferences(st, user) == st.prefs[user] # <<>>

\* d[user] = slots
WithEntry(d, user, slots) ==
  [u \in DOMAIN d \cup {user} |-> IF u = user THEN slots ELSE d[u]]

RECURSIVE InterleaveRound(_, _, _)
InterleaveRound(slots_by_user, user_ids, i) ==
  IF user_ids = <<>> THEN <<>>
  ELSE (IF i <= Len(slots_by_user[Head(user_ids)])
        THEN <<slots_by_user[Head(user_ids)][i]>> ELSE <<>>)
       \o InterleaveRound(slots_by_user, Tail(user_ids), i)

RECURSIVE InterleaveFrom(_, _, _, _)
InterleaveFrom(slots_by_user, user_ids, i, max_slots) ==
  IF i > max_slots THEN <<>>
  ELSE InterleaveRound(slots_by_user, user_ids, i)
       \o InterleaveFrom(slots_by_user, user_ids, i + 1, max_slots)

RECURSIVE InterleaveUserMajor(_, _)
InterleaveUserMajor(slots_by_user, user_ids) ==
  IF user_ids = <<>> THEN <<>>
  ELSE slots_by_user[Head(user_ids)]
       \o InterleaveUserMajor(slots_by_user, Tail(user_ids))

\* _interleave_slots, user_ids being the shuffled keys
InterleaveSlots(slots_by_user, user_ids) ==
  IF DOMAIN slots_by_user = {} THEN <<>>
  ELSE LET max_slots == CHOOSE m \in {Len(slots_by_user[u]) : u \in DOMAIN slots_by_user} :
                          \A u \in DOMAIN slots_by_user : Len(slots_by_user[u]) <= m
       IN InterleaveFrom(slots_by_user, user_ids, 1, max_slots)

\* random.shuffle(user_ids)
Shuffles(keys) == Arrangements(keys, Cardinality(keys))

\* the global_used set handed to build_user_slots as disallow_urls
DisallowPassedNone(a) == {}

DisallowPassed(a) == a.global_used

\* ---- the calls the model makes, chosen in the initial state ----
PrefChoices ==
  {[u \in Users |-> IF u = 1 THEN p1 ELSE IF u = 2 THEN p2 ELSE p3] :
     p1 \in {<<Pref(1, 5, 100)>>,
             <<Pref(1, 5, 100), Pref(2, 12, 100), Pref(3, -2, 100)>>},
     p2 \in {<<>>, <<Pref(4, 5, 100), Pref(5, 4, 50)>>},
     p3 \in {<<>>, <<Pref(7, -5, 100)>>, <<Pref(7, 5, 100), Pref(3, 2, 25)>>}}

FullPool == [i \in Urls |-> i]

BuildStores ==
  {[prefs |-> p, pool |-> pl, played |-> h] :
     p \in PrefChoices, pl \in {FullPool, <<2, 1>>}, h \in {{}, {2}, {1, 4}}}

AllocateStores ==
  {[prefs |-> p, pool |-> pl, played |-> h] :
     p \in PrefChoices, pl \in {FullPool}, h \in {{}, {2}}}

RatioChoices == {DefaultRatios, Ratios(100, 0, 0), Ratios(50, 50, 0)}

NoEntries == [u \in {} |-> <<>>]

\* the tier counts before build_user_slots computes them
NoTiers == [comfort |-> 0, adjacent |-> 0, wildcard |-> 0]

Call(op, st, cfg, count, user, disallow, user_ids) ==
  [pc |-> op, st |-> st, cfg |-> cfg, count |-> count, user |-> user,
   disallow |-> disallow, user_ids |-> user_ids, idx |-> 1,
   public_by_user |-> NoEntries, hidden_by_user |-> NoEntries,
   global_used |-> {}, slots |-> <<>>, tiers |-> NoTiers,
   public |-> <<>>, hidden |-> <<>>]

BuildCalls ==
  {Call("build", st, cfg, count, user, disallow, <<>>) :
     st \in BuildStores, cfg \in RatioChoices, count \in 1..MaxCount,
     user \in Users, disallow \in {{}, {1}, {3, 5}}}

AllocateCalls ==
  {Call("allocate", st, DefaultRatios, count, 0, {}, user_ids) :
     st \in AllocateStores, count \in {2, 4},
     user_ids \in Arrangements(Users, 2) \cup Arrangements(Users, 3)}

InitDiscovery ==
  /\ GuildMusicState /\ history = Untracked /\ bot = NoBot
  /\ alloc \in BuildCalls \cup AllocateCalls

\* one call of build_user_slots
BuildUserSlotsCall ==
  /\ alloc.pc = "build"
  /\ \E slots \in BuildUserSlots(alloc.user, alloc.count, alloc.cfg,
                                 alloc.disallow, alloc.st) :
       alloc' = [alloc EXCEPT !.pc = "built", !.slots = slots,
                   !.tiers = IF HasNoLiked(SortLiked(Liked(alloc.st.prefs[alloc.user])))
                             THEN NoTiers ELSE TierCounts(alloc.count, alloc.cfg)]
  /\ UNCHANGED <<session, bot>>

\* allocate_queue: one turn of the loop over user_ids
AllocateUser ==
  /\ alloc.pc = "allocate"
  /\ alloc.idx <= Len(alloc.user_ids)
  /\ LET user_id == alloc.user_ids[alloc.idx]
         next == [alloc EXCEPT !.idx = @ + 1]
         half == alloc.count \div 2
     IN IF ~HasPreferences(alloc.st, user_id) THEN alloc' = next
        ELSE \E slots \in BuildUserSlots(user_id, alloc.count, alloc.cfg,
                                         DisallowPassed(alloc), alloc.st) :
               alloc' = IF slots = <<>> THEN next
                        ELSE [next EXCEPT
                                !.public_by_user =
                                   WithEntry(@, user_id, SubSeq(slots, 1, Min(half, Len(slots)))),
                                !.hidden_by_user =
                                   WithEntry(@, user_id, SubSeq(slots, half + 1, Len(slots))),
                                !.global_used = @ \cup SlotUrls(slots)]
  /\ UNCHANGED <<session, bot>>

\* allocate_queue after the loop: the two interleaved queues
AllocateInterleave ==
  /\ alloc.pc = "allocate"
  /\ alloc.idx > Len(alloc.user_ids)
  /\ \E po \in Shuffles(DOMAIN alloc.public_by_user),
        ho \in Shuffles(DOMAIN alloc.hidden_by_user) :
       alloc' = [alloc EXCEPT !.pc = "allocated",
                   !.public = InterleaveSlots(alloc.public_by_user, po),
                   !.hidden = InterleaveSlots(alloc.hidden_by_user, ho)]
  /\ UNCHANGED <<session, bot>>

(* --------------------------- temporal decay --------------------------- *)
\* 2^k
RECURSIVE Pow2(_)
Pow2(k) == IF k = 0 THEN 1 ELSE 2 * Pow2(k - 1)

\* a weight that falls linearly to 0 at two half-lives
TemporalWeightLinear(age_days, half_life_days) ==
  LET h == Max(half_life_days, 1) IN
  [num |-> Max(2 * h - Max(age_days, 0), 0), den |-> 2 * h]

\* _temporal_weight for a valid timestamp, as the exact rational num/den:
\* math.pow(0.5, age_days / max(half_life_days, 1)) with age_days clamped at
\* 0, on ages that are whole multiples of the half-life
TemporalWeight(age_days, half_life_days) ==
  [num |-> 1, den |-> Pow2(Max(age_days, 0) \div Max(half_life_days, 1))]

\* p['effective_score'] = raw_score * decay, as an exact rational
EffectiveScoreAt(raw_score, age_days, half_life_days) ==
  LET decay == TemporalWeight(age_days, half_life_days) IN
  [num |-> raw_score * decay.num, den |-> decay.den]

\* half-lives Config.DISCOVERY_DECAY_HALF_LIFE_DAYS can be set to (default 14)
HalfLifeChoices == {1, 7, 14}

\* the scores of one liked row at the ages 0, H, 2H, ...: the inputs
DecayCalls ==
  {[pc |-> "decay", raw |-> r, half_life |-> h, out |-> <<>>] :
     r \in 1..MaxScore, h \in HalfLifeChoices}

InitDecay ==
  /\ GuildMusicState /\ history = Untracked /\ bot = NoBot
  /\ alloc \in DecayCalls

\* the effective score of the row at its next age
EffectiveScoreCall ==
  /\ alloc.pc = "decay"
  /\ Len(alloc.out) <= MaxHalvings
  /\ alloc' = [alloc EXCEPT !.out =
       Append(@, EffectiveScoreAt(alloc.raw, Len(@) * alloc.half_life,
                                  alloc.half_life))]
  /\ UNCHANGED <<session, bot>>

(* ---------------------------- interactions ---------------------------- *)
\* the interaction_type values the callers pass, and one the weights do not
\* know
InteractionKinds == {"upvote", "downvote", "skip", "request", "like"}

\* the (user_id, url) keys of user_preferences
Pairs == {1, 2} \X {1, 2}

\* weights.get(interaction_type, 0)
Weight(kind) ==
  CASE kind = "upvote"   -> DISCOVERY_WEIGHT_UPVOTE
    [] kind = "downvote" -> DISCOVERY_WEIGHT_DOWNVOTE
    [] kind = "skip"     -> DISCOVERY_WEIGHT_SKIP
    [] kind = "request"  -> DISCOVERY_WEIGHT_REQUEST
    [] OTHER -> 0

\* an upsert that stores the new delta over the old score
UpdateUserPreferenceOverwrite(row, delta) == {delta}

\* update_user_preference: INSERT ... ON CONFLICT(user_id, url) DO UPDATE SET
\* score = score + excluded.score, on the row of the key ({}: no row)
UpdateUserPreference(row, delta) ==
  IF row = {} THEN {delta} ELSE {(CHOOSE v \in row : TRUE) + delta}

\* add_to_autoplay_pool(0, ...): INSERT OR IGNORE on (guild_id, url)
AddToAutoplayPool(pool, url) == pool \cup {url}

\* the store with no preference and an empty pool; counts and calls record
\* the calls made
EmptyStore ==
  [pc |-> "store",
   score |-> [p \in Pairs |-> {}],
   pool |-> {},
   pending |-> [u \in {1, 2} |-> 0],
   counts |-> [p \in Pairs |-> [k \in InteractionKinds |-> 0]],
   calls |-> 0]

InitStore ==
  /\ GuildMusicState /\ history = Untracked /\ bot = NoBot
  /\ alloc = EmptyStore

\* record_interaction up to the return of db.update_user_preference
RecordInteraction(user_id, url, interaction_type) ==
  /\ alloc.pc = "store"
  /\ alloc.calls < MaxCalls
  /\ LET delta == Weight(interaction_type)
         seen == [alloc EXCEPT
                    !.calls = @ + 1,
                    !.counts[<<user_id, url>>][interaction_type] = @ + 1]
     IN alloc' = IF delta # 0
                 THEN [seen EXCEPT
                        !.score[<<user_id, url>>] = UpdateUserPreference(@, delta),
                        !.pending[url] = @ + 1]
                 ELSE seen
  /\ UNCHANGED <<session, bot>>

\* record_interaction: db.add_to_autoplay_pool ran
RecordInteractionPool(url) ==
  /\ alloc.pc = "store"
  /\ alloc.pending[url] > 0
  /\ alloc' = [alloc EXCEPT !.pending[url] = @ - 1,
                            !.pool = AddToAutoplayPool(@, url)]
  /\ UNCHANGED <<session, bot>>

(* ------------------------ the cog: guild_states ----------------------- *)
\* the guilds that use the bot
Guilds == {1, 2}

\* Config.DEFAULT_VOLUME, in hundredths
DefaultVolume == 50

\* GuildMusicState(guild_id): the session of guild_states, as a value
NewGuildMusicState ==
  [queue |-> <<>>, current |-> NoSong, loop_mode |-> "off",
   is_24_7 |-> FALSE, is_autoplay |-> TRUE, max_duration |-> 0,
   autoplay_visible |-> <<>>, autoplay_hidden |-> <<>>,
   is_fetching_autoplay |-> FALSE, voice_client |-> FALSE,
   connected |-> FALSE, playing |-> NoSong, afterPending |-> 0,
   refill |-> NoRefill, starts |-> <<>>, waiters |-> 0, justPlay |-> "idle",
   discPending |-> FALSE, cycles |-> 0, tornDown |-> FALSE, ev |-> NoEv,
   history |-> Untracked, volume |-> DefaultVolume]

\* the 10 s task between two runs of its body
Sleeping == [pc |-> "sleeping", todo |-> <<>>, used |-> 0]

\* a lookup that ignores the guild: every guild shares one session
KeyOfShared(guild_id) == 1

\* the key of guild_states a handler uses: interaction.guild.id
KeyOf(guild_id) == guild_id

\* the rows of guild_settings of one guild: each key is absent ({}) or holds
\* the text set_setting stored, str(value)
NoSettings ==
  [volume |-> {}, is_autoplay |-> {}, loop_mode |-> {}, max_duration |-> {},
   is_24_7 |-> {}]

\* str(value) of a bool
StrBool(b) == IF b THEN "True" ELSE "False"

\* get_settings: the type conversion of a stored bool ('true'/'false' in any
\* case); any other text stays a string
ParseBool(text) ==
  IF text \in {"True", "true"} THEN TRUE
  ELSE IF text \in {"False", "false"} THEN FALSE
  ELSE text

\* settings.get(key, default) on the parsed rows
SettingOr(row, default) == IF row = {} THEN default ELSE CHOOSE v \in row : TRUE

\* load_settings after db.get_settings returned the rows: loop_mode is not
\* among the fields it writes
LoadSettings(s, rows) ==
  IF rows = NoSettings THEN s
  ELSE [s EXCEPT
         !.volume = SettingOr(rows.volume, DefaultVolume),
         !.is_autoplay = ParseBool(SettingOr(rows.is_autoplay, StrBool(TRUE))),
         !.is_24_7 = ParseBool(SettingOr(rows.is_24_7, StrBool(FALSE))),
         !.max_duration = SettingOr(rows.max_duration, 0)]

\* the cog after __init__ with the stored settings db; writes holds the
\* set_setting tasks not yet run, commanded the settings a command has set
\* since the session was created (observation only)
Cog(db) ==
  [guild_states |-> << >>, order |-> <<>>, loads |-> {}, db |-> db,
   task |-> Sleeping, on |-> {}, starts_cap |-> MaxStarts,
   writes |-> [g \in Guilds |-> NoSettings], commanded |-> {}]

\* get_state: the session of the guild, created on first use with its
\* load_settings task
GetState(b, guild_id) ==
  LET k == KeyOf(guild_id) IN
  IF k \in DOMAIN b.guild_states THEN b
  ELSE [b EXCEPT
         !.guild_states = [x \in DOMAIN @ \cup {k} |->
                             IF x = k THEN NewGuildMusicState ELSE @[x]],
         !.order = Append(@, k),
         !.loads = @ \cup {k}]

\* the body of autoplay_refill_task from one dictionary item on, up to its
\* next await or its end
RECURSIVE TimerLoop(_, _)
TimerLoop(b, todo) ==
  IF todo = <<>> THEN [b EXCEPT !.task = Sleeping]
  ELSE LET st == b.guild_states[Head(todo)] IN
       IF /\ st.is_autoplay /\ ~st.is_fetching_autoplay
          /\ Len(total_autoplay(st)) < BufferCap
          /\ ~RefillSkips(st)
       THEN [b EXCEPT
              !.guild_states[Head(todo)] = Note(BeginRefill(st, "timer"), "timer"),
              !.task = [pc |-> "awaiting", todo |-> Tail(todo),
                        used |-> b.task.used]]
       ELSE TimerLoop(b, Tail(todo))

\* the body resumes after its awaited refill: the dictionary iterator raises
\* RuntimeError when guild_states changed size, and the task loop ends
TimerResume(b) ==
  IF Len(b.order) # b.task.used
  THEN [b EXCEPT !.task = [pc |-> "failed", todo |-> <<>>, used |-> 0]]
  ELSE TimerLoop(b, b.task.todo)

\* a refill step of one session ended with session value st: the task's body
\* goes on when it awaited this refill
RefillStep(b, k, st) ==
  LET b1 == [b EXCEPT !.guild_states[k] = st] IN
  IF b.guild_states[k].refill.owner = "timer" /\ st.refill.pc = "idle"
  THEN TimerResume(b1)
  ELSE b1

\* the model's bounds on the pending work of every session; starts_cap is
\* the number of play_async coroutines per session the run follows
BotBounded(b) ==
  \A k \in DOMAIN b.guild_states :
     /\ Len(b.guild_states[k].starts) <= b.starts_cap
     /\ b.guild_states[k].waiters <= MaxWaiters
     /\ b.guild_states[k].afterPending <= MaxAfter
     /\ b.guild_states[k].cycles <= MaxCycles
     /\ Len(b.guild_states[k].queue) <= MaxQueue

\* a step of the cog; on: the guilds whose sessions the handler, task or
\* callback that took the step was called for (observation only)
BotDo(b, on) ==
  /\ BotBounded(b)
  /\ bot' = [b EXCEPT !.on = on]
  /\ UNCHANGED <<session, alloc>>

\* the guilds a refill step of session k acts for: the 10 s task goes on to
\* the sessions it has not visited when it awaited this refill
RefillStepFor(b, k) ==
  IF b.guild_states[k].refill.owner = "timer"
  THEN {k} \cup SeqRange(b.task.todo)
  ELSE {k}

\* a handler of guild_id that runs the segment f on its session
OnState(b, guild_id, st) == [b EXCEPT !.guild_states[KeyOf(guild_id)] = st]

StateOf(b, guild_id) == b.guild_states[KeyOf(guild_id)]

HasState(guild_id) == KeyOf(guild_id) \in DOMAIN bot.guild_states

\* a command of the guild that only looks its session up (/queue)
BotGetState(guild_id) ==
  /\ ~HasState(guild_id)
  /\ BotDo(GetState(bot, guild_id), {guild_id})

\* the load_settings task of a new session: db.get_settings returned
BotLoadSettings(k) ==
  /\ k \in bot.loads
  /\ BotDo([bot EXCEPT !.loads = @ \ {k},
                       !.guild_states[k] = LoadSettings(@, bot.db[k])], {k})

\* /autoplay in the guild: the toggle, then the set_setting task
BotAutoplayCmd(guild_id) ==
  LET b1 == GetState(bot, guild_id)
      k  == KeyOf(guild_id)
      st == AutoplayToggled(StateOf(b1, guild_id))
  IN BotDo([OnState(b1, guild_id, st) EXCEPT
              !.writes[guild_id].is_autoplay = {StrBool(st.is_autoplay)},
              !.commanded = @ \cup {<<k, "is_autoplay">>}],
           {guild_id})

\* /volume <level> in the guild
BotVolumeCmd(guild_id, level) ==
  LET b1 == GetState(bot, guild_id)
      k  == KeyOf(guild_id)
  IN BotDo([OnState(b1, guild_id,
                    [StateOf(b1, guild_id) EXCEPT !.volume = level])
              EXCEPT !.writes[guild_id].volume = {level},
                     !.commanded = @ \cup {<<k, "volume">>}],
           {guild_id})

\* a set_setting task runs: INSERT ... ON CONFLICT DO UPDATE
BotSetSettingDone(guild_id, key) ==
  /\ bot.writes[guild_id][key] # {}
  /\ BotDo([bot EXCEPT !.db[guild_id][key] = bot.writes[guild_id][key],
                       !.writes[guild_id][key] = {}],
           {guild_id})

\* /play <song> in the guild
BotPlay(guild_id, t) ==
  LET b1 == GetState(bot, guild_id) IN
  BotDo(OnState(b1, guild_id, Played(StateOf(b1, guild_id), t)), {guild_id})

\* one run of the body of autoplay_refill_task
BotTimerTick ==
  /\ bot.task.pc = "sleeping"
  /\ BotDo(TimerLoop([bot EXCEPT !.task.used = Len(bot.order)], bot.order),
           SeqRange(bot.order))

\* get_next_songs returned in a refill of session k
BotRefillDiscoveryDone(k, recs) ==
  /\ k \in DOMAIN bot.guild_states
  /\ bot.guild_states[k].refill.pc = "discovery"
  /\ BotDo(RefillStep(bot, k, AfterDiscovery(bot.guild_states[k], recs)),
           RefillStepFor(bot, k))

\* from_playlist returned in a refill of session k
BotRefillFallbackDone(k, pl) ==
  /\ k \in DOMAIN bot.guild_states
  /\ bot.guild_states[k].refill.pc = "fallback"
  /\ BotDo(RefillStep(bot, k,
        CompleteRefill(FillFallback(bot.guild_states[k],
                                    Take(pl, bot.guild_states[k].refill.count)))),
           RefillStepFor(bot, k))

\* play_async of session k: YTDLSource.from_url returned
BotResolveDone(k, i) ==
  /\ k \in DOMAIN bot.guild_states
  /\ i \in 1..Len(bot.guild_states[k].starts)
  /\ bot.guild_states[k].starts[i].pc = "resolve"
  /\ BotDo([bot EXCEPT !.guild_states[k] = Resolved(@, i)], {k})

\* play_async of session k: _update_now_playing_message returned
BotDisplayDone(k, i) ==
  /\ k \in DOMAIN bot.guild_states
  /\ i \in 1..Len(bot.guild_states[k].starts)
  /\ bot.guild_states[k].starts[i].pc = "display"
  /\ BotDo([bot EXCEPT !.guild_states[k] = Note(AfterStart(@, i), "display")],
           {k})

\* the player of session k ends, and its after-callback runs play_next
BotTrackFinished(k) ==
  /\ k \in DOMAIN bot.guild_states
  /\ bot.guild_states[k].playing # NoSong
  /\ BotDo([bot EXCEPT !.guild_states[k] = Note(VoiceStop(@), "finished")],
           {k})

BotAfterCallback(k) ==
  /\ k \in DOMAIN bot.guild_states
  /\ bot.guild_states[k].afterPending > 0
  /\ BotDo([bot EXCEPT !.guild_states[k] =
              PlayNext([@ EXCEPT !.afterPending = @ - 1], "after")], {k})

(* --------------------------- specifications --------------------------- *)
\* The session with persistent mode and autoplay toggled, one requested
\* track, discovery answering nothing or track 1.
Next ==
  \/ \E t \in {1} : Play(t)
  \/ \E recs \in {<<>>, <<1>>} : RefillDiscoveryDone(recs)
  \/ \E pl \in {<<>>} : RefillFallbackDone(pl)
  \/ TrackFinished
  \/ AfterCallback
  \/ WaitAndPlayRuns
  \/ \E i \in 1..MaxStarts : ResolveDone(i)
  \/ \E i \in 1..MaxStarts : DisplayDone(i)
  \/ Toggle247
  \/ AutoplayToggle
  \/ DisconnectRuns

Spec == Init /\ [][Next]_vars

\* The session with the loop mode and the duration limit changed by command,
\* resolutions that fail, one requested (short) track and discovery answering
\* the long track 2.
NextLoop ==
  \/ \E t \in {1} : Play(t)
  \/ \E recs \in {<<2>>} : RefillDiscoveryDone(recs)
  \/ \E pl \in {<<>>} : RefillFallbackDone(pl)
  \/ TrackFinished
  \/ AfterCallback
  \/ WaitAndPlayRuns
  \/ \E i \in 1..MaxStarts : ResolveDone(i)
  \/ \E i \in 1..MaxStarts : ResolveFails(i)
  \/ \E i \in 1..MaxStarts : DisplayDone(i)
  \/ \E mode \in LoopModes : LoopCmd(mode)
  \/ \E m \in DurationChoices : MaxDurationCmd(m)

SpecLoop == Init /\ [][NextLoop]_vars

\* The session with the queue loop switched on, two requested tracks and
\* discovery answering track 2.
NextRotate ==
  \/ \E t \in {1, 3} : Play(t)
  \/ \E recs \in {<<2>>} : RefillDiscoveryDone(recs)
  \/ \E pl \in {<<>>} : RefillFallbackDone(pl)
  \/ TrackFinished
  \/ AfterCallback
  \/ WaitAndPlayRuns
  \/ \E i \in 1..MaxStarts : ResolveDone(i)
  \/ \E i \in 1..MaxStarts : DisplayDone(i)
  \/ \E mode \in {"queue"} : LoopCmd(mode)

SpecRotate == Init /\ [][NextRotate]_vars

\* The session with discovery filling the visible buffer and one hidden
\* slot, the mood refresh of each start, and autoplay toggled by command.
NextMood ==
  \/ \E t \in {1} : Play(t)
  \/ \E recs \in {FullAnswer} : RefillDiscoveryDone(recs)
  \/ \E pl \in {<<>>} : RefillFallbackDone(pl)
  \/ TrackFinished
  \/ AfterCallback
  \/ WaitAndPlayRuns
  \/ \E i \in 1..MaxStarts : ResolveDone(i)
  \/ \E i \in 1..MaxStarts : DisplayDone(i)
  \/ \E i \in 1..MaxStarts : \E m \in {0, 1} : \E idx \in {1} : MoodDone(i, m, idx)
  \/ AutoplayToggle

SpecMood == Init /\ [][NextMood]_vars

\* The session with the duration limit set and cleared by command, a short
\* and a long requested track, discovery answering the long track, and the
\* play button.
NextLimit ==
  \/ \E t \in {1, 2} : Play(t)
  \/ \E recs \in {<<2>>} : RefillDiscoveryDone(recs)
  \/ \E pl \in {<<>>} : RefillFallbackDone(pl)
  \/ TrackFinished
  \/ AfterCallback
  \/ WaitAndPlayRuns
  \/ \E i \in 1..MaxStarts : ResolveDone(i)
  \/ \E i \in 1..MaxStarts : DisplayDone(i)
  \/ \E m \in DurationChoices : MaxDurationCmd(m)
  \/ PlayButton

SpecLimit == Init /\ [][NextLimit]_vars

\* The look-ahead buffers filled from a pool of six tracks and a fallback
\* playlist of three, with /just_play and the play button.
NextBuffers ==
  \/ \E t \in {1} : Play(t)
  \/ \E recs \in {FullAnswer} : RefillDiscoveryDone(recs)
  \/ \E pl \in {<<2, 1, 3>>} : RefillFallbackDone(pl)
  \/ TrackFinished
  \/ AfterCallback
  \/ WaitAndPlayRuns
  \/ \E i \in 1..MaxStarts : ResolveDone(i)
  \/ \E i \in 1..MaxStarts : DisplayDone(i)
  \/ JustPlay
  \/ \E pl \in {<<2, 1, 3>>} : JustPlayFallbackDone(pl)
  \/ PlayButton

SpecBuffers == Init /\ [][NextBuffers]_vars

\* Every trigger of the refill: /play, /just_play, the timer, the emergency
\* refill of the advance, a listener joining, /autoplay and /maxduration.
NextRefill ==
  \/ \E t \in {1} : Play(t)
  \/ Timer
  \/ \E recs \in {<<1>>} : RefillDiscoveryDone(recs)
  \/ \E pl \in {<<>>} : RefillFallbackDone(pl)
  \/ TrackFinished
  \/ AfterCallback
  \/ WaitAndPlayRuns
  \/ \E i \in 1..MaxStarts : ResolveDone(i)
  \/ \E i \in 1..MaxStarts : DisplayDone(i)
  \/ JustPlay
  \/ \E pl \in {<<>>} : JustPlayFallbackDone(pl)
  \/ ListenerJoin
  \/ AutoplayToggle
  \/ \E m \in {0} : MaxDurationCmd(m)

SpecRefill == Init /\ [][NextRefill]_vars

\* The session torn down by /disconnect or by the channel emptying while a
\* refill may be in flight, and started again by /play.
NextTeardown ==
  \/ \E t \in {1} : Play(t)
  \/ \E recs \in {<<>>, <<2>>} : RefillDiscoveryDone(recs)
  \/ \E pl \in {<<>>, <<3>>} : RefillFallbackDone(pl)
  \/ TrackFinished
  \/ AfterCallback
  \/ WaitAndPlayRuns
  \/ \E i \in 1..MaxStarts : ResolveDone(i)
  \/ \E i \in 1..MaxStarts : DisplayDone(i)
  \/ DisconnectCmd
  \/ ChannelEmpties

SpecTeardown == Init /\ [][NextTeardown]_vars

\* The session stopped by /stop or by a stop button, with 24/7 mode on or
\* off, while a track plays or a refill is in flight.
NextStop ==
  \/ \E t \in {1} : Play(t)
  \/ \E recs \in {<<>>, <<2>>} : RefillDiscoveryDone(recs)
  \/ \E pl \in {<<>>} : RefillFallbackDone(pl)
  \/ TrackFinished
  \/ AfterCallback
  \/ WaitAndPlayRuns
  \/ \E i \in 1..MaxStarts : ResolveDone(i)
  \/ \E i \in 1..MaxStarts : DisplayDone(i)
  \/ StopCmd
  \/ StopButton
  \/ Toggle247

SpecStop == Init /\ [][NextStop]_vars

\* The discovery engine alone: one build_user_slots or allocate_queue call on
\* a store, a configuration and arguments drawn in the initial state.
NextDiscovery ==
  \/ BuildUserSlotsCall
  \/ AllocateUser
  \/ AllocateInterleave

SpecDiscovery == InitDiscovery /\ [][NextDiscovery]_vars

\* The effective score of a liked row as its last interaction ages.
NextDecay == EffectiveScoreCall

SpecDecay == InitDecay /\ [][NextDecay]_vars

\* Interactions of two users with two tracks, in any order and overlapping.
NextStore ==
  \/ \E p \in Pairs : \E k \in InteractionKinds : RecordInteraction(p[1], p[2], k)
  \/ \E u \in {1, 2} : RecordInteractionPool(u)

SpecStore == InitStore /\ [][NextStore]_vars

\* The session with its play history followed: requests, refills whose
\* discovery step gives nothing or fails and whose playlist fetch gives
\* track 3, and the advance.
NextHistory ==
  \/ \E t \in {1} : Play(t)
  \/ \E recs \in {<<>>} : RefillDiscoveryDone(recs)
  \/ RefillDiscoveryFails
  \/ \E pl \in {<<>>, <<3>>} : RefillFallbackDone(pl)
  \/ TrackFinished
  \/ AfterCallback
  \/ WaitAndPlayRuns
  \/ \E i \in 1..MaxStarts : ResolveDone(i)
  \/ \E i \in 1..MaxStarts : DisplayDone(i)

SpecHistory == InitHistory /\ [][NextHistory]_vars

\* The same session when the resolution of a track can also fail.
NextDiscard ==
  \/ \E t \in {1} : Play(t)
  \/ \E recs \in {<<>>} : RefillDiscoveryDone(recs)
  \/ RefillDiscoveryFails
  \/ \E pl \in {<<>>, <<3>>} : RefillFallbackDone(pl)
  \/ TrackFinished
  \/ AfterCallback
  \/ WaitAndPlayRuns
  \/ \E i \in 1..MaxStarts : ResolveDone(i)
  \/ \E i \in 1..MaxStarts : ResolveFails(i)
  \/ \E i \in 1..MaxStarts : DisplayDone(i)

SpecDiscard == InitHistory /\ [][NextDiscard]_vars

\* Listeners joining and leaving while discovery fills the buffers with the
\* slots of two listeners.
NextListeners ==
  \/ \E t \in {1} : Play(t)
  \/ \E recs \in {<<1, 2, 3>>} : RefillDiscoveryDone(recs)
  \/ \E pl \in {<<>>} : RefillFallbackDone(pl)
  \/ TrackFinished
  \/ AfterCallback
  \/ WaitAndPlayRuns
  \/ \E i \in 1..MaxStarts : ResolveDone(i)
  \/ \E i \in 1..MaxStarts : DisplayDone(i)
  \/ ListenerJoin
  \/ \E member \in Members : ListenerLeave(member)

SpecListeners == Init /\ [][NextListeners]_vars

\* Playback with a buffered autoplay track.  Every coroutine and callback
\* the event loop holds is run; commands and the end of a track are up to
\* the listeners.
NextPrefetch ==
  \/ \E t \in {1} : Play(t)
  \/ \E recs \in {<<>>, <<2>>} : RefillDiscoveryDone(recs)
  \/ \E pl \in {<<>>} : RefillFallbackDone(pl)
  \/ TrackFinished
  \/ AfterCallback
  \/ WaitAndPlayRuns
  \/ \E i \in 1..MaxStarts : ResolveDone(i)
  \/ \E i \in 1..MaxStarts : DisplayDone(i)

SpecPrefetch ==
  /\ Init /\ [][NextPrefetch]_vars
  /\ WF_vars(\E recs \in {<<>>, <<2>>} : RefillDiscoveryDone(recs))
  /\ WF_vars(\E pl \in {<<>>} : RefillFallbackDone(pl))
  /\ WF_vars(AfterCallback)
  /\ WF_vars(WaitAndPlayRuns)
  /\ WF_vars(\E i \in 1..MaxStarts : ResolveDone(i))
  /\ WF_vars(\E i \in 1..MaxStarts : DisplayDone(i))

\* the cog with nothing stored for any guild
InitCog ==
  /\ GuildMusicState /\ history = Untracked /\ alloc = NoAlloc
  /\ bot = Cog([g \in Guilds |-> NoSettings])

\* Two guilds start playing while the 10 s task runs.  The task is scheduled
\* every 10 s while it lives, and the store and the network answer every
\* refill.
NextTimer ==
  \/ \E g \in Guilds : BotPlay(g, 1)
  \/ \E k \in Guilds : BotLoadSettings(k)
  \/ BotTimerTick
  \/ \E k \in Guilds : \E recs \in {<<>>} : BotRefillDiscoveryDone(k, recs)
  \/ \E k \in Guilds : \E pl \in {<<>>, <<3>>} : BotRefillFallbackDone(k, pl)

\* the rows an earlier run of the bot can have stored for a guild with
\* /volume, /autoplay, /loop, /maxduration and /247
StoredSettings ==
  [volume : {{}, {80}}, is_autoplay : {{}, {StrBool(FALSE)}},
   loop_mode : {{}, {"queue"}}, max_duration : {{}, {120}},
   is_24_7 : {{}, {StrBool(TRUE)}}]

\* the cog after a restart: guild 1 has stored settings
InitSettings ==
  /\ GuildMusicState /\ history = Untracked /\ alloc = NoAlloc
  /\ \E rows \in StoredSettings :
       bot = Cog([g \in Guilds |-> IF g = 1 THEN rows ELSE NoSettings])

\* Sessions are created by a lookup or by /play, and their settings load;
\* no command changes a setting.
NextSettings ==
  \/ \E g \in Guilds : BotGetState(g)
  \/ \E k \in Guilds : BotLoadSettings(k)
  \/ \E g \in Guilds : BotPlay(g, 1)

SpecSettings == InitSettings /\ [][NextSettings]_vars

\* the levels /volume is given
VolumeChoices == {30}

\* After a restart the first command of guild 1 is /autoplay or /volume: it
\* creates the session, whose settings load while the command's own
\* set_setting task is pending.
NextCommands ==
  \/ BotAutoplayCmd(1)
  \/ \E level \in VolumeChoices : BotVolumeCmd(1, level)
  \/ \E key \in {"is_autoplay", "volume"} : BotSetSettingDone(1, key)
  \/ BotLoadSettings(1)

SpecCommands == InitSettings /\ [][NextCommands]_vars

\* Two guilds play and are refilled side by side, by their own refills and
\* by the 10 s task; the tracks of guild 1 also end and advance.  A guild
\* requests a track when it has no request waiting.
NextIsolation ==
  \/ \E g \in Guilds :
        /\ HasState(g) => StateOf(bot, g).queue = <<>>
        /\ BotPlay(g, g)
  \/ BotTimerTick
  \/ \E k \in Guilds : \E recs \in {<<3>>} : BotRefillDiscoveryDone(k, recs)
  \/ \E k \in Guilds : \E pl \in {<<>>} : BotRefillFallbackDone(k, pl)
  \/ \E k \in {1} : BotResolveDone(k, 1)
  \/ \E k \in {1} : BotDisplayDone(k, 1)
  \/ \E k \in {1} : BotTrackFinished(k)
  \/ \E k \in {1} : BotAfterCallback(k)

SpecIsolation == InitCog /\ [][NextIsolation]_vars

\* the cog followed with one more play_async coroutine per session than the
\* other runs, so that a start can arrive while another is resolving
InitOverlap ==
  /\ GuildMusicState /\ history = Untracked /\ alloc = NoAlloc
  /\ bot = [Cog([g \in Guilds |-> NoSettings]) EXCEPT !.starts_cap = MaxStarts + 1]

\* One guild whose listeners request two tracks at any time, also while a
\* start is resolving.
NextOverlap ==
  \/ \E t \in {1, 3} : BotPlay(1, t)
  \/ \E recs \in {<<>>} : BotRefillDiscoveryDone(1, recs)
  \/ \E pl \in {<<>>} : BotRefillFallbackDone(1, pl)
  \/ \E i \in 1..(MaxStarts + 1) : BotResolveDone(1, i)
  \/ \E i \in 1..(MaxStarts + 1) : BotDisplayDone(1, i)
  \/ BotTrackFinished(1)
  \/ BotAfterCallback(1)

SpecOverlap == InitOverlap /\ [][NextOverlap]_vars

\* The refill cycles of one session that /play and the 10 s task start;
\* every await of a cycle returns or raises.  Listeners request a track when
\* none is playing.
NextCycle ==
  \/ \E t \in {1} : playing = NoSong /\ Play(t)
  \/ Timer
  \/ \E recs \in {<<>>, <<2>>} : RefillDiscoveryDone(recs)
  \/ RefillDiscoveryFails
  \/ \E pl \in {<<>>, <<3>>} : RefillFallbackDone(pl)
  \/ TrackFinished
  \/ \E i \in 1..MaxStarts : ResolveDone(i)
  \/ \E i \in 1..MaxStarts : DisplayDone(i)

\* the event loop resumes the refill when its await has an answer
SpecCycle ==
  /\ Init /\ [][NextCycle]_vars
  /\ WF_vars(\E recs \in {<<>>, <<2>>} : RefillDiscoveryDone(recs))
  /\ WF_vars(\E pl \in {<<>>, <<3>>} : RefillFallbackDone(pl))

SpecTimer ==
  /\ InitCog /\ [][NextTimer]_vars
  /\ WF_vars(BotTimerTick)
  /\ \A k \in Guilds :
       /\ WF_vars(\E recs \in {<<>>} : BotRefillDiscoveryDone(k, recs))
       /\ WF_vars(\E pl \in {<<>>, <<3>>} : BotRefillFallbackDone(k, pl))

(* ------------------------------ properties ---------------------------- *)
\* the steps in which play_next ran
AdvanceOps == {"loop", "queue", "autoplay", "emergency", "idle"}

\* the steps in which a track left the visible buffer to be played
ConsumeOps == {"autoplay", "retry-autoplay", "button-autoplay"}

\* the steps in which an advance ended without a track
EndOps == {"idle", "retry-idle", "retry-disconnect"}

\* no canonical URL occurs twice in the sequence of songs
NoDuplicate(songs) ==
  \A i, j \in 1..Len(songs) :
     i # j => SongWebpageUrl(songs[i]) # SongWebpageUrl(songs[j])

\* the request queue as play_next sees it when it selects (after the
\* loop-queue re-append), as wait_and_play sees it when it selects
QueueAtSelection ==
  IF ev'.op = "retry-autoplay" THEN queue'
  ELSE IF loop_mode = "queue" /\ current # NoSong THEN Append(queue, current)
  ELSE queue

\* C1: in every reachable state the visible buffer holds at most 5 tracks,
\* the hidden buffer at most 5, and the two together at most 10.
C1_BufferCaps ==
  /\ Len(autoplay_visible) <= VisibleCap
  /\ Len(autoplay_hidden) <= HiddenCap
  /\ Len(autoplay_visible) + Len(autoplay_hidden) <= BufferCap

\* C2: in the state right after a refill cycle completed, no canonical URL
\* occurs twice in the request queue followed by the visible and the hidden
\* buffer.
C2_NoDuplicateAfterRefill ==
  ev.op = "refill-complete" =>
     NoDuplicate(queue \o autoplay_visible \o autoplay_hidden)

\* C3: a step in which the advance selects the next track while the request
\* queue is non-empty selects the head of the queue and leaves both buffers
\* as they were, on the path of play_next and on the retry of wait_and_play.
C3_RequestBeforeAutoplay ==
  [][(ev'.op \in {"queue", "autoplay", "retry-autoplay"}
        /\ QueueAtSelection # <<>>)
      => /\ current' = Head(QueueAtSelection)
         /\ UNCHANGED <<autoplay_visible, autoplay_hidden>>]_vars

\* C4: a step in which play_next runs with loop_mode "song" and a current
\* track starts that same track again and changes neither the request queue
\* nor a buffer, and starts no refill and no emergency retry.
C4_LoopSongReplays ==
  [][(ev'.op \in AdvanceOps /\ loop_mode = "song" /\ current # NoSong)
      => /\ starts' # <<>>
         /\ starts'[Len(starts')] = [song |-> current, pc |-> "resolve"]
         /\ UNCHANGED <<current, queue, autoplay_visible, autoplay_hidden,
                        is_fetching_autoplay, refill, waiters>>]_vars

\* C4 witness: the replay happened with a request waiting and a candidate in
\* the visible buffer
C4_Witness ==
  /\ ev.op = "loop"
  /\ loop_mode = "song"
  /\ queue # <<>>
  /\ autoplay_visible # <<>>

C6_OverLimitNotChosenAgain ==
  [][\A i \in 1..Len(starts) :
       (/\ starts[i].pc = "resolve"
        /\ DurationRejected(ActualDuration(starts[i].song.id), max_duration)
        /\ ResolveDone(i)
        /\ Len(starts') = Len(starts))
       => starts'[Len(starts')].song # starts[i].song]_vars

\* C7: the step that discards a track whose resolution failed does not start
\* that track again.
C7_FailedNotRetried ==
  [][\A i \in 1..Len(starts) :
       (/\ starts[i].pc = "resolve"
        /\ ResolveFails(i)
        /\ Len(starts') = Len(starts))
       => starts'[Len(starts')].song # starts[i].song]_vars

\* C8: a step that consumes a track from the visible buffer while the hidden
\* buffer is non-empty (and no refill completes in the step) moves the head
\* of the hidden buffer to the tail of the visible buffer.
C8_RotationOnConsume ==
  [][(ev'.op \in ConsumeOps /\ refill' = refill /\ autoplay_hidden # <<>>)
      => /\ autoplay_hidden' = Tail(autoplay_hidden)
         /\ autoplay_visible' # <<>>
         /\ autoplay_visible'[Len(autoplay_visible')] = Head(autoplay_hidden)]_vars

\* C9: an emergency retry ends idle or disconnects only when the refill it
\* asked for ran to completion, so that no refill is in flight at that point.
C9_EndsOnlyAfterOwnRefill ==
  ev.op \in {"retry-idle", "retry-disconnect"} =>
     (ev.by = "refill-ran" /\ ~is_fetching_autoplay)

\* C10: a step in which an advance ends without a track keeps the connection
\* and schedules no disconnect and starts nothing when is_24_7 is set, and
\* otherwise disconnects or schedules the disconnect.
C10_DisconnectUnlessPersistent ==
  [][ev'.op \in EndOps
      => IF is_24_7
         THEN /\ connected' = connected
              /\ discPending' = discPending
              /\ Len(starts') <= Len(starts)
         ELSE discPending' \/ ~connected']_vars

\* C10 witness: an advance ended without a track in persistent mode and the
\* bot is still connected
C10_Witness ==
  /\ ev.op \in EndOps
  /\ is_24_7
  /\ connected
  /\ ~discPending

\* C11: at most one refill cycle is past the guard and unfinished, and
\* is_fetching_autoplay is set exactly while one is: a refill requested in
\* the meantime starts no second cycle and leaves nothing pending.
C11_OneRefillInFlight ==
  /\ cycles <= 1
  /\ is_fetching_autoplay <=> cycles = 1
  /\ refill.pc # "idle" <=> cycles = 1

\* C11 witness: /just_play asked for a refill while one was in flight, was
\* skipped and went on to the fallback playlist; one cycle is in flight
C11_Witness ==
  /\ ev.op = "just-play-fetch"
  /\ is_fetching_autoplay
  /\ cycles = 1

\* C12: in every state with is_fetching_autoplay set, a refill call returns
\* the session as it is: buffers, request queue, current, the flag and the
\* cycle in flight are unchanged.
C12_RefillWhileFetchingIsNoOp ==
  is_fetching_autoplay =>
     LET r == SpawnRefill(S) IN
       /\ r.autoplay_visible = autoplay_visible
       /\ r.autoplay_hidden = autoplay_hidden
       /\ r.queue = queue
       /\ r.current = current
       /\ r.is_fetching_autoplay = is_fetching_autoplay
       /\ r.refill = refill
       /\ r.cycles = cycles

\* C12 witness: the refill call of wait_and_play was made while the flag was
\* set, and the flag is still set after it
C12_Witness ==
  /\ ev.by = "refill-skipped"
  /\ is_fetching_autoplay
  /\ voice_client
  /\ current # NoSong

\* C13: a step in which play_next runs as the after-callback of the voice
\* client, that is on the audio thread, changes none of current, the request
\* queue and the two buffers.
C13_CallbackThreadMutatesNothing ==
  [][ev'.by = "after"
      => UNCHANGED <<current, queue, autoplay_visible, autoplay_hidden>>]_vars

\* C14: from a teardown until the bot is joined again both buffers are empty:
\* a refill that was in flight at the teardown writes nothing.
C14_BuffersEmptyAfterTeardown ==
  tornDown => (autoplay_visible = <<>> /\ autoplay_hidden = <<>>)

(* ----------------------- discovery: properties ------------------------ *)
\* the URLs of the slots differ pairwise
DistinctUrls(slots) ==
  \A i, j \in 1..Len(slots) : i # j => slots[i].url # slots[j].url

\* the slots of a list owned by user u
OwnedBy(slots, u) == {i \in 1..Len(slots) : slots[i].user_id = u}

Listeners == {alloc.user_ids[i] : i \in 1..Len(alloc.user_ids)}

\* the URLs of the user's rows with a positive score
LikedUrls(st, u) == {st.prefs[u][i].url : i \in {j \in 1..Len(st.prefs[u]) : st.prefs[u][j].score > 0}}

\* every listener obtained at least slots_per_user slots
AllServedInFull ==
  \A u \in Listeners :
     /\ u \in DOMAIN alloc.public_by_user
     /\ Len(alloc.public_by_user[u]) + Len(alloc.hidden_by_user[u]) >= alloc.count

\* C15: when every listener obtained at least slots_per_user slots, every
\* prefix of the interleaved public queue whose length is k times the number
\* of listeners holds exactly k slots of each listener, whatever the shuffle;
\* the whole public queue holds slots_per_user // 2 slots of each (2 of each
\* for two listeners and 4 slots per user).
C15_RoundRobinFairness ==
  (alloc.pc = "allocated" /\ AllServedInFull) =>
     LET n == Len(alloc.user_ids)
     IN /\ Len(alloc.public) = n * (alloc.count \div 2)
        /\ \A k \in 0..(alloc.count \div 2) : \A u \in Listeners :
              Cardinality(OwnedBy(SubSeq(alloc.public, 1, k * n), u)) = k

\* two listeners with 4 slots each, interleaved starting with the listener
\* that was allocated last
C15_Witness ==
  /\ alloc.pc = "allocated"
  /\ AllServedInFull
  /\ Len(alloc.user_ids) = 2
  /\ alloc.count = 4
  /\ Len(alloc.public) = 4
  /\ alloc.public[1].user_id = alloc.user_ids[2]

\* C16: after one allocate_queue call the URLs of the public queue followed
\* by the hidden queue differ pairwise: no track is handed to two listeners
\* and none twice to one listener.
C16_NoUrlTwiceInCycle ==
  alloc.pc = "allocated" => DistinctUrls(alloc.public \o alloc.hidden)

\* two listeners own slots, and a slot of one is a track the other likes
C16_Witness ==
  /\ alloc.pc = "allocated"
  /\ \E i \in 1..Len(alloc.public \o alloc.hidden) : \E v \in DOMAIN alloc.public_by_user :
        /\ (alloc.public \o alloc.hidden)[i].user_id # v
        /\ (alloc.public \o alloc.hidden)[i].url \in LikedUrls(alloc.st, v)

\* C17: build_user_slots returns at most count slots, for every count >= 1
\* and every ratio configuration; a user with the one liked track 1, a pool
\* holding track 2 of the same artist, 1 slot asked at 100% comfort: the
\* call returns exactly the comfort slot of track 1.
C17_AtMostCountSlots ==
  alloc.pc = "built" =>
     /\ Len(alloc.slots) <= alloc.count
     /\ (/\ alloc.count = 1 /\ alloc.cfg = Ratios(100, 0, 0) /\ alloc.user = 1
         /\ alloc.st.prefs[1] = <<Pref(1, 5, 100)>> /\ alloc.disallow = {}
         /\ alloc.st.played = {} /\ 2 \in SeqRange(alloc.st.pool))
        => alloc.slots = <<MkSlot(1, 1, "comfort")>>

\* C18: for every count >= 3 the three tier counts add up to count and each
\* tier whose ratio is positive has at least one slot.
C18_TierSplit ==
  (alloc.pc = "built" /\ alloc.tiers # NoTiers /\ alloc.count >= 3) =>
     /\ alloc.tiers.comfort + alloc.tiers.adjacent + alloc.tiers.wildcard = alloc.count
     /\ alloc.cfg.comfort > 0 => alloc.tiers.comfort >= 1
     /\ alloc.cfg.adjacent > 0 => alloc.tiers.adjacent >= 1
     /\ alloc.cfg.wildcard > 0 => alloc.tiers.wildcard >= 1

\* a slot of the backfill: an adjacent slot behind a wildcard slot, or more
\* adjacent slots than the adjacent tier takes
HasBackfill ==
  \/ \E i, j \in 1..Len(alloc.slots) :
        i < j /\ alloc.slots[i].slot_type = "wildcard" /\ alloc.slots[j].slot_type = "adjacent"
  \/ Cardinality({i \in 1..Len(alloc.slots) : alloc.slots[i].slot_type = "adjacent"})
        > alloc.tiers.adjacent

\* C19: no slot build_user_slots returns, in any tier or in the backfill,
\* has a URL of the disallow set passed in or a URL played within the dedup
\* window, and the URLs of the returned slots differ pairwise.
C19_NoDisallowedOrPlayedSlot ==
  alloc.pc = "built" =>
     /\ \A i \in 1..Len(alloc.slots) :
           /\ alloc.slots[i].url \notin alloc.disallow
           /\ ~IsRecentlyPlayed(alloc.st, alloc.slots[i].url)
     /\ DistinctUrls(alloc.slots)

\* slots of all three tiers and the backfill are returned while a liked
\* track is disallowed and a pool track of a liked artist was played
C19_Witness ==
  /\ alloc.pc = "built"
  /\ HasBackfill
  /\ {alloc.slots[i].slot_type : i \in 1..Len(alloc.slots)} = {"comfort", "adjacent", "wildcard"}
  /\ alloc.disallow \cap LikedUrls(alloc.st, alloc.user) # {}
  /\ \E u \in alloc.st.played :
        /\ u \in SeqRange(alloc.st.pool)
        /\ PoolScore(u, Liked(alloc.st.prefs[alloc.user])) > 0

\* listeners without a preference row of positive score
Unliked == {u \in Users : LikedUrls(alloc.st, u) = {}}

\* C20: a user without a preference of positive score gets no slot:
\* build_user_slots returns the empty list for that user, and allocate_queue
\* puts no slot of such a listener into either queue while every other
\* listener who still has an unclaimed, unplayed liked track owns a slot.
C20_NoSlotsWithoutLikes ==
  /\ (alloc.pc = "built" /\ alloc.user \in Unliked) => alloc.slots = <<>>
  /\ alloc.pc = "allocated" =>
       LET all == alloc.public \o alloc.hidden
       IN /\ \A u \in Unliked : OwnedBy(all, u) = {}
          /\ \A v \in Listeners \ Unliked :
                (\E l \in LikedUrls(alloc.st, v) :
                    /\ ~IsRecentlyPlayed(alloc.st, l)
                    /\ \A i \in 1..Len(all) : all[i].url = l => all[i].user_id = v)
                => OwnedBy(all, v) # {}

\* the first listener has only a negative preference row, the pool has
\* tracks for it, and a later listener owns slots in both queues
C20_Witness ==
  /\ alloc.pc = "allocated"
  /\ alloc.user_ids[1] \in Unliked
  /\ HasPreferences(alloc.st, alloc.user_ids[1])
  /\ \E v \in Listeners : OwnedBy(alloc.public, v) # {} /\ OwnedBy(alloc.hidden, v) # {}

(* ------------------------ refill and history -------------------------- *)
\* the playlist songs a step puts into the buffers or starts
NewPlaylistSongs ==
  {x \in (SeqRange(total_autoplay(S)') \cup {current'})
            \ (SeqRange(total_autoplay(S)) \cup {current}) : x.kind = "playlist"}

\* C21: a track the refill takes from the fallback playlist was not played
\* in this session within the dedup window (is_recently_played of its URL is
\* false) and has no URL that is already in the request queue or the buffers.
C21_FallbackRespectsDedup ==
  [][refill.pc = "fallback" =>
       \A x \in NewPlaylistSongs :
          /\ SongUrl(x) \notin history
          /\ \A y \in SeqRange(queue \o total_autoplay(S)) :
                SongWebpageUrl(y) # SongWebpageUrl(x)]_vars

\* C22: when the discovery step of a refill ends with the buffers still
\* short of their targets and a fallback playlist is configured, the cycle
\* goes on to the playlist fetch; this holds when the step ends because a
\* preference-store query failed.
C22_StoreFailureFallsBack ==
  [][(refill.pc = "discovery" /\ StillNeeded(S) > 0 /\ FallbackConfigured)
       => refill'.pc \in {"discovery", "fallback"}]_vars

\* a buffer entry that discovery produced for the listener
OwnedSlot(x, member) == x.kind = "pool" /\ SlotUserId(x.id) = member

\* C23: after a listener left the voice channel no slot produced for that
\* listener is in autoplay_visible or autoplay_hidden, and the slots of the
\* other listeners are kept in their order.
C23_LeaverSlotsEvicted ==
  [][ev'.op = "listener-left" =>
       LET member == ev'.by IN
         /\ \A x \in SeqRange(autoplay_visible' \o autoplay_hidden') :
               ~OwnedSlot(x, member)
         /\ autoplay_visible' =
               SelectSeq(autoplay_visible, LAMBDA x : ~OwnedSlot(x, member))
         /\ autoplay_hidden' =
               SelectSeq(autoplay_hidden, LAMBDA x : ~OwnedSlot(x, member))]_vars

(* ------------------------------ the cog ------------------------------- *)
\* the session of the guild is one the 10 s task has to refill
NeedsRefill(g) ==
  /\ g \in DOMAIN bot.guild_states
  /\ bot.guild_states[g].is_autoplay
  /\ bot.guild_states[g].voice_client
  /\ ~bot.guild_states[g].is_fetching_autoplay
  /\ Len(total_autoplay(bot.guild_states[g])) < BufferCap

\* a refill cycle the 10 s task started runs for the guild
TimerRefills(g) ==
  /\ g \in DOMAIN bot.guild_states
  /\ bot.guild_states[g].refill.owner = "timer"

\* C24: every session with autoplay enabled and fewer than 10 buffered
\* tracks eventually has a refill cycle started for it by the periodic task
\* (or stops being such a session), also when sessions are created while the
\* task runs.
C24_PeriodicRefillLiveness ==
  \A g \in Guilds : NeedsRefill(g) ~> (TimerRefills(g) \/ ~NeedsRefill(g))

(* ----------------------------- prefetch ------------------------------- *)
\* the tracks that can be the next candidate
Candidates == {MkSong(1, "search"), MkSong(2, "pool")}

\* C25: after a successful track start with a next candidate that is not the
\* prefetched song, prefetched_song eventually is that candidate, or its
\* resolution failed and the cache was cleared (or the candidate changed).
C25_PrefetchAfterStart ==
  \A c \in Candidates :
     (ev.op = "started" /\ PrefetchCandidate(S) = c /\ prefetch.song # c)
       ~> (prefetch.song = c \/ prefetch.pc = "failed"
             \/ PrefetchCandidate(S) # c)

(* --------------------------- interactions ----------------------------- *)
\* the calls with a known interaction kind made for the key
KnownCalls(p) ==
  alloc.counts[p]["upvote"] + alloc.counts[p]["downvote"]
    + alloc.counts[p]["skip"] + alloc.counts[p]["request"]

\* C26: whatever the order of the record_interaction calls, the stored score
\* of (user, url) is 5*upvotes - 5*downvotes - 2*skips + 2*requests, and a
\* call with an unknown kind writes neither a score nor a pool row.
C26_ScoreIsSumOfDeltas ==
  /\ \A p \in Pairs :
       IF KnownCalls(p) = 0 THEN alloc.score[p] = {}
       ELSE alloc.score[p] =
              {5 * alloc.counts[p]["upvote"] - 5 * alloc.counts[p]["downvote"]
                 - 2 * alloc.counts[p]["skip"] + 2 * alloc.counts[p]["request"]}
  /\ \A u \in {1, 2} :
       (u \in alloc.pool \/ alloc.pending[u] > 0)
          => \E p \in Pairs : p[2] = u /\ KnownCalls(p) > 0

C26_Witness ==
  \E p \in Pairs :
     /\ alloc.counts[p]["upvote"] = 1
     /\ alloc.counts[p]["skip"] = 1
     /\ alloc.counts[p]["like"] = 1
     /\ alloc.score[p] = {3}
     /\ alloc.pending[p[2]] = 0

\* the value a stored row holds for the session field (the field's value when
\* nothing is stored)
Persisted(row, field) == IF row = {} THEN field ELSE CHOOSE v \in row : TRUE

\* C27: once the asynchronous load of a new session is over, and no command
\* changed a setting, volume, is_autoplay, loop_mode and max_duration have
\* their persisted values.
C27_PersistedSettingsApplied ==
  \A g \in DOMAIN bot.guild_states :
     g \notin bot.loads =>
       /\ bot.guild_states[g].volume =
            Persisted(bot.db[g].volume, bot.guild_states[g].volume)
       /\ StrBool(bot.guild_states[g].is_autoplay) =
            Persisted(bot.db[g].is_autoplay,
                      StrBool(bot.guild_states[g].is_autoplay))
       /\ bot.guild_states[g].loop_mode =
            Persisted(bot.db[g].loop_mode, bot.guild_states[g].loop_mode)
       /\ bot.guild_states[g].max_duration =
            Persisted(bot.db[g].max_duration, bot.guild_states[g].max_duration)

\* current, the request queue, the buffers and the flags of a session
Observed(st) ==
  <<st.current, st.queue, st.autoplay_visible, st.autoplay_hidden,
    st.is_autoplay, st.is_24_7, st.is_fetching_autoplay, st.loop_mode,
    st.max_duration>>

Times(n, b, a) == a.num * b.den = n * b.num * a.den

\* the rational a is less than the rational b
Less(a, b) == a.num * b.den < b.num * a.den

\* C29: for a positive raw score and half-life H the effective score is the
\* raw score at age 0, half of it at age H and a quarter of it at age 2H, and
\* it is strictly decreasing over the ages 0, H, 2H, ...
C29_DecayHalvesPerHalfLife ==
  alloc.pc = "decay" =>
    /\ Len(alloc.out) >= 1 => Times(alloc.raw, [num |-> 1, den |-> 1], alloc.out[1])
    /\ Len(alloc.out) >= 2 => Times(2, alloc.out[2], [num |-> alloc.raw, den |-> 1])
    /\ Len(alloc.out) >= 3 => Times(4, alloc.out[3], [num |-> alloc.raw, den |-> 1])
    /\ \A i \in 1..(Len(alloc.out) - 1) : Less(alloc.out[i + 1], alloc.out[i])

C29_Witness ==
  /\ alloc.pc = "decay"
  /\ alloc.raw = 6
  /\ alloc.half_life = 14
  /\ Len(alloc.out) >= 3
  /\ alloc.out[3] = [num |-> 6, den |-> 4]

IdleOps == {"idle", "retry-idle", "retry-disconnect"}

\* C31: a step in which an advance ends with nothing to play, directly or
\* after its emergency refill, leaves current None.
C31_IdleHasNoCurrent ==
  [][ev'.op \in IdleOps => current' = NoSong]_vars

(* ---------------------------- mood refresh ---------------------------- *)
\* the play_async coroutines that await get_mood_recommendation
MoodWaits(st) == {i \in 1..Len(st) : st[i].pc = "mood"}

\* C32: the step that ends a mood refresh keeps the length of
\* autoplay_hidden and changes at most one of its elements, changes neither
\* autoplay_visible, the request queue, current nor the track the voice
\* client plays, and runs no advance, whatever happened to autoplay_hidden
\* while the similarity query was awaited.
C32_MoodRefreshFrame ==
  [][Cardinality(MoodWaits(starts')) < Cardinality(MoodWaits(starts))
      => /\ Len(autoplay_hidden') = Len(autoplay_hidden)
         /\ Cardinality({i \in 1..Len(autoplay_hidden) :
                           autoplay_hidden'[i] # autoplay_hidden[i]}) <= 1
         /\ UNCHANGED <<autoplay_visible, queue, current, playing>>
         /\ ev'.op \notin AdvanceOps]_vars

(* --------------------------- track starts ----------------------------- *)
\* the play_async coroutines of a session that are resolving their track
Resolving(st) == {i \in 1..Len(st.starts) : st.starts[i].pc = "resolve"}

\* C33: a session has at most one track start in flight, and the track the
\* voice client plays is state.current, also when a play request arrives
\* while another start is resolving.
C33_OneStartAndCurrentPlays ==
  \A g \in DOMAIN bot.guild_states :
     /\ Cardinality(Resolving(bot.guild_states[g])) <= 1
     /\ bot.guild_states[g].playing # NoSong
          => bot.guild_states[g].current = bot.guild_states[g].playing

\* C34: no track is lost: play_async never drops the track it resolved, nor
\* runs a further advance, because the voice client is already playing
\* another track.
C34_NoTrackLostToPlaying ==
  [][~(/\ playing # NoSong
       /\ current # NoSong
       /\ Len(starts') < Len(starts)
       /\ ev'.by = "play-error")]_vars

(* -------------------------------- stop -------------------------------- *)
\* C35: from a stop command until the next play, just_play or play-button
\* request the session stays stopped: the queue and both buffers are empty,
\* current is None, loop_mode is off and no track plays.
C35_StaysStopped ==
  stopped => /\ queue = <<>>
             /\ autoplay_visible = <<>>
             /\ autoplay_hidden = <<>>
             /\ current = NoSong
             /\ loop_mode = "off"
             /\ playing = NoSong

(* ------------------------- autoplay disabled -------------------------- *)
\* C36: while autoplay is disabled both autoplay buffers are empty, also
\* when a refill was in flight at the moment autoplay was toggled off.
C36_DisabledMeansEmpty ==
  ~is_autoplay => autoplay_visible = <<>> /\ autoplay_hidden = <<>>

(* --------------------------- refill cycles ---------------------------- *)
\* C37: a refill cycle that sets is_fetching_autoplay clears it again,
\* whether its awaits return, raise or find nothing.
C37_FlagCleared == is_fetching_autoplay ~> ~is_fetching_autoplay

\* a cycle of the refill task has ended with the flag cleared
C37_CycleEnded ==
  /\ ev.op = "refill-complete"
  /\ ~is_fetching_autoplay
  /\ refill = NoRefill
  /\ cycles = 0

(* ------------------------- commanded settings ------------------------- *)
\* the settings of session k that a command has set
CommandedOf(b, k) ==
  [key \in {key \in {"is_autoplay", "volume"} : <<k, key>> \in b.commanded}
     |-> b.guild_states[k][key]]

\* C38: the load of the persisted settings started when a session is created
\* never overwrites a setting that a command has set on that session.
C38_LoadKeepsCommanded ==
  [][\A k \in bot.loads :
        k \notin bot'.loads => CommandedOf(bot', k) = CommandedOf(bot, k)]_vars

(* --------------------------- play history ----------------------------- *)
\* C39: a track enters the play history only if it started playing: the
\* step that discards a track whose resolution failed, or whose duration
\* exceeds the limit, does not add that track to the history.
C39_DiscardedNotRecorded ==
  [][ev'.by \in {"resolve-failed", "over-limit"}
       => \A i \in 1..Len(starts) :
             starts[i].pc = "resolve"
               => SongUrl(starts[i].song) \notin (history' \ history)]_vars

(* -------------------------- disliked tracks --------------------------- *)
\* the URLs for which the user's accumulated preference score is negative
Disliked(st, user) ==
  {st.prefs[user][i].url :
     i \in {j \in 1..Len(st.prefs[user]) : st.prefs[user][j].score < 0}}

\* C40: build_user_slots returns to a user no track for which that user's
\* accumulated preference score is negative, in any tier.
C40_NoDislikedSlot ==
  (alloc.pc = "built")
    => \A i \in 1..Len(alloc.slots) :
          alloc.slots[i].url \notin Disliked(alloc.st, alloc.user)
====
